---- MODULE Spec2Model ----
(***************************************************************************)
(* Model of the reminders-to-obsidian sync: the document patchers, the    *)
(* verified write with retry, the acknowledge step and the dispatcher's   *)
(* per-day processed record.                                               *)
(*                                                                         *)
(* Text is a sequence of one-character strings, so that find, split,      *)
(* strip and slicing are computed the way the Python code computes them.  *)
(* Positions are 0-based as in Python; -1 is "not found".                 *)
(***************************************************************************)
EXTENDS Integers, Sequences, FiniteSets, TLC

\* ------------------------------------------------------------------ text

NL == <<"\n">>

\* content[i:j]
Slice(s, i, j) == SubSeq(s, i + 1, j)

\* s.find(pat, start)
Find(s, pat, start) ==
    LET hits == {i \in start..(Len(s) - Len(pat)) : Slice(s, i, i + Len(pat)) = pat}
    IN  IF hits = {} THEN -1 ELSE CHOOSE i \in hits : \A j \in hits : i <= j

\* pat in s
Contains(s, pat) == Find(s, pat, 0) # -1

\* s.startswith(pat)
StartsWith(s, pat) == Len(s) >= Len(pat) /\ Slice(s, 0, Len(pat)) = pat

\* s.split("\n")
RECURSIVE Split(_)
Split(s) ==
    LET i == Find(s, NL, 0)
    IN  IF i = -1 THEN <<s>> ELSE <<Slice(s, 0, i)>> \o Split(Slice(s, i + 1, Len(s)))

\* "\n".join(lines)
RECURSIVE Join(_)
Join(lines) ==
    IF lines = <<>> THEN <<>>
    ELSE IF Len(lines) = 1 THEN lines[1]
    ELSE lines[1] \o NL \o Join(Tail(lines))

\* " ".join(lines)
RECURSIVE JoinSp(_)
JoinSp(lines) ==
    IF lines = <<>> THEN <<>>
    ELSE IF Len(lines) = 1 THEN lines[1]
    ELSE lines[1] \o <<" ">> \o JoinSp(Tail(lines))

IsSpace(c) == c \in {" ", "\n"}

\* s.strip()
RECURSIVE LStrip(_)
LStrip(s) == IF s # <<>> /\ IsSpace(s[1]) THEN LStrip(Tail(s)) ELSE s
RECURSIVE RStrip(_)
RStrip(s) == IF s # <<>> /\ IsSpace(s[Len(s)]) THEN RStrip(Slice(s, 0, Len(s) - 1)) ELSE s
Strip(s) == LStrip(RStrip(s))

IsDigit(c) == c \in {"0", "1", "2", "3", "4", "5", "6", "7", "8", "9"}

\* str(i) for the indexes the model uses
Digit(i) == <<CASE i = 1 -> "1" [] i = 2 -> "2" [] i = 3 -> "3" [] i = 4 -> "4"
                [] i = 5 -> "5" [] i = 6 -> "6" [] i = 7 -> "7" [] i = 8 -> "8"
                [] OTHER -> "9">>

\* ------------------------------------------------------------ configuration

\* A retry ceiling one too high
RETRY_ATTEMPTS_OneMore == 3 + 1

RETRY_ATTEMPTS == 3

FORMAT_PLAIN == "plain"
FORMAT_BLOCKQUOTE == "blockquote"
FORMAT_BULLET == "bullet"
FORMAT_NUMBERED == "numbered"
FORMAT_CHECKBOX == "checkbox"

\* The markers, shortened: PrioMarker stands for "**Three Priorities:**",
\* ConcMarker for "**Today's anxiety/concern:**", LogMarker for
\* "## (memo) Daily Log" (the one marker that starts with "##").
PrioMarker == <<"*", "P", "*">>
ConcMarker == <<"*", "C", "*">>
LogMarker == <<"#", "#", " ", "L">>

\* LISTS, restricted to three of its nine entries: one bounded morning
\* section, one plain morning section and the "always" log section.
LISTS ==
    [priorities |-> [reminders_list |-> "3Priorities", marker |-> PrioMarker,
                     format |-> FORMAT_CHECKBOX, schedule |-> "morning"],
     concerns   |-> [reminders_list |-> "Concerns", marker |-> ConcMarker,
                     format |-> FORMAT_BLOCKQUOTE, schedule |-> "morning"],
     log        |-> [reminders_list |-> "Log", marker |-> LogMarker,
                     format |-> FORMAT_PLAIN, schedule |-> "always"]]

ListKeys == DOMAIN LISTS

\* ------------------------------------------------------------------ items

ListNames == {"3Priorities", "Concerns", "Log"}

\* A reminder: (id, creation timestamp, name). The n-th reminder created in
\* a list has timestamp n; its name is one letter, distinct per reminder.
PrioLetters == <<"a", "b", "c", "d", "e", "f", "g">>
ConcLetters == <<"q", "r", "s", "t">>
LogLetters == <<"u", "v", "w", "x">>

LettersOf(list) ==
    CASE list = "3Priorities" -> PrioLetters
      [] list = "Concerns" -> ConcLetters
      [] OTHER -> LogLetters

\* How many reminders are created during the modelled day, over all lists
MaxNew == 2

\* How many priorities reminders are pending when a day with a backlog starts
Backlog == 5

Item(list, n) == [list |-> list, n |-> n]
ItemTs(it) == it.n
ItemText(it) == <<LettersOf(it.list)[it.n]>>

\* A batch that keeps the order of the fetch
SortByTs_AsFetched(entries) == entries

\* sorted(entries, key=lambda x: x[1]): a stable insertion sort on the timestamp
RECURSIVE InsertByTs(_, _)
InsertByTs(sorted, e) ==
    IF sorted = <<>> THEN <<e>>
    ELSE IF ItemTs(e) < ItemTs(sorted[Len(sorted)])
         THEN InsertByTs(Slice(sorted, 0, Len(sorted) - 1), e) \o <<sorted[Len(sorted)]>>
         ELSE sorted \o <<e>>
RECURSIVE SortByTs(_)
SortByTs(entries) ==
    IF entries = <<>> THEN <<>>
    ELSE InsertByTs(SortByTs(Slice(entries, 0, Len(entries) - 1)), entries[Len(entries)])

\* [e[0] for e in sorted_entries]
Ids(entries) == entries
IdSet(entries) == {entries[i] : i \in 1..Len(entries)}

\* --------------------------------------------------------------- renderer

format_entry_Stripped(text, fmt, index) ==
    CASE fmt = FORMAT_BLOCKQUOTE -> <<">", " ">> \o Strip(text)
      [] fmt = FORMAT_BULLET -> <<"-", " ">> \o Strip(text)
      [] fmt = FORMAT_NUMBERED -> Digit(index) \o <<".", " ">> \o Strip(text)
      [] fmt = FORMAT_CHECKBOX ->
            Digit(index) \o <<".", " ", "[", " ", "]", " ">> \o Strip(text)
      [] OTHER -> Strip(text)

\* sync.format_entry
format_entry(text, fmt, index) ==
    CASE fmt = FORMAT_BLOCKQUOTE -> <<">", " ">> \o text
      [] fmt = FORMAT_BULLET -> <<"-", " ">> \o text
      [] fmt = FORMAT_NUMBERED -> Digit(index) \o <<".", " ">> \o text
      [] fmt = FORMAT_CHECKBOX -> Digit(index) \o <<".", " ", "[", " ", "]", " ">> \o text
      [] OTHER -> text

\* formatted_lines of sync_list
FormattedLines(sorted, fmt) ==
    [i \in 1..Len(sorted) |-> format_entry(ItemText(sorted[i]), fmt, i)]

\* entries_text of sync_list
EntriesText(sorted, fmt) == Join(FormattedLines(sorted, fmt)) \o NL

\* ---------------------------------------------------------------- patchers

\* The value insert_at_marker returns when the marker is absent.
None == <<"None">>

\* An insert that falls back to the end of the document when the marker is
\* absent
insert_at_marker_Append(content, marker, entries_text) == content \o entries_text

\* A patch that drops what follows the marker
insert_at_marker_Truncate(content, marker, entries_text) ==
    IF ~Contains(content, marker) THEN None
    ELSE Slice(content, 0, Find(content, marker, 0) + Len(marker)) \o NL \o entries_text

\* sync.insert_at_marker
insert_at_marker(content, marker, entries_text) ==
    IF ~Contains(content, marker) THEN None
    ELSE
    LET marker_pos == Find(content, marker, 0)
        nl == Find(content, NL, marker_pos)
        line_end == IF nl = -1 THEN Len(content) ELSE nl + 1
        rest == Slice(content, line_end, Len(content))
        divider_pos == Find(rest, <<"\n", "-", "-", "-">>, 0)
        next_section == Find(rest, <<"\n", "#", "#", " ">>, 0)
        insert_pos ==
            IF StartsWith(marker, <<"#", "#">>)
            THEN IF divider_pos # -1 /\ (next_section = -1 \/ divider_pos < next_section)
                 THEN line_end + divider_pos + 1
                 ELSE IF next_section # -1 THEN line_end + next_section + 1
                 ELSE line_end
            ELSE line_end
    IN  Slice(content, 0, insert_pos) \o entries_text \o Slice(content, insert_pos, Len(content))

\* The bare tokens server.insert_at_marker takes for an empty placeholder line
Placeholders ==
    {<<">">>, <<"-">>, <<"1", ".">>, <<"2", ".">>, <<"3", ".">>, <<>>}

\* server.insert_at_marker
server_insert_at_marker(content, marker, entry_text) ==
    IF ~Contains(content, marker) THEN None
    ELSE
    LET marker_pos == Find(content, marker, 0)
        nl == Find(content, NL, marker_pos)
        line_end == IF nl = -1 THEN Len(content) ELSE nl + 1
        rest == Slice(content, line_end, Len(content))
        divider_pos == Find(rest, <<"\n", "-", "-", "-">>, 0)
        next_section == Find(rest, <<"\n", "#", "#", " ">>, 0)
        insert_pos ==
            IF divider_pos # -1 /\ (next_section = -1 \/ divider_pos < next_section)
            THEN line_end + divider_pos + 1
            ELSE IF next_section # -1 THEN line_end + next_section + 1
            ELSE line_end
        fl == Find(rest, NL, 0)
        first_line_end == IF fl = -1 THEN Len(rest) ELSE fl
        first_line == Strip(Slice(rest, 0, first_line_end))
    IN
    IF StartsWith(marker, <<"#", "#">>)
    THEN Slice(content, 0, insert_pos) \o entry_text \o NL
            \o Slice(content, insert_pos, Len(content))
    ELSE IF first_line \in Placeholders
    THEN Slice(content, 0, line_end) \o entry_text \o Slice(rest, first_line_end, Len(rest))
    ELSE Slice(content, 0, line_end) \o entry_text \o NL
            \o Slice(content, line_end, Len(content))

\* main.append_to_daily_note, the patch: new_content from content and the batch
append_patch(content, sorted) ==
    LET new_entries_text ==
            IF sorted = <<>> THEN <<>>
            ELSE Join([i \in 1..Len(sorted) |-> ItemText(sorted[i])]) \o NL
        section_header == LogMarker
    IN
    IF ~Contains(content, section_header) THEN None
    ELSE
    LET header_pos == Find(content, section_header, 0)
        nl == Find(content, NL, header_pos)
        header_end == IF nl = -1 THEN Len(content) ELSE nl + 1
        divider_pos == Find(content, <<"\n", "-", "-", "-">>, header_end)
        next_section == Find(content, <<"\n", "#", "#", " ">>, header_end)
        insert_pos ==
            IF divider_pos # -1 /\ (next_section = -1 \/ divider_pos < next_section)
            THEN divider_pos + 1
            ELSE IF next_section # -1 THEN next_section + 1
            ELSE header_end
    IN  Slice(content, 0, insert_pos) \o new_entries_text \o Slice(content, insert_pos, Len(content))

\* The slot bound of the priorities section: sorted(...)[:3], range(.., 4)
PRIORITY_SLOTS == 3

\* priorities_lines of update_priorities_in_daily_note
priorities_lines(sorted) ==
    [i \in 1..PRIORITY_SLOTS |->
        IF i <= Len(sorted)
        THEN Digit(i) \o <<".", " ", "-", " ", "[", " ", "]", " ">> \o ItemText(sorted[i])
        ELSE Digit(i) \o <<".", " ", "-", " ", "[", " ", "]">>]

\* The line test of the skip loop of update_priorities_in_daily_note
IsPriorityLine(line) ==
    LET stripped == Strip(line)
    IN  stripped = <<>> \/
        (Len(stripped) >= 2 /\ IsDigit(stripped[1]) /\
         Contains(stripped, <<".", " ", "-", " ", "[">>))

\* A skip loop that stops after the rest of the marker line, so that the
\* lines of an earlier write stay
PrioEndIdx_MarkerLineOnly(lines) ==
    IF lines # <<>> /\ IsPriorityLine(lines[1]) THEN 1 ELSE 0

\* end_idx of the skip loop of update_priorities_in_daily_note: the number of
\* leading lines that pass the test (the loop breaks at the first that fails)
RECURSIVE PrioEndIdx(_)
PrioEndIdx(lines) ==
    IF lines # <<>> /\ IsPriorityLine(lines[1]) THEN 1 + PrioEndIdx(Tail(lines)) ELSE 0

\* priorities.update_priorities_in_daily_note, the patch
priorities_patch(content, sorted) ==
    LET priorities_text == Join(priorities_lines(sorted))
        section_marker == PrioMarker
    IN
    IF ~Contains(content, section_marker) THEN None
    ELSE
    LET marker_pos == Find(content, section_marker, 0)
        marker_end == marker_pos + Len(section_marker)
        rest_of_content == Slice(content, marker_end, Len(content))
        lines == Split(rest_of_content)
        end_idx == PrioEndIdx(lines)
        after_priorities == Join(SubSeq(lines, end_idx + 1, Len(lines)))
    IN  Slice(content, 0, marker_end) \o NL \o priorities_text \o NL \o
        (IF after_priorities # <<>> /\ ~StartsWith(after_priorities, NL)
            /\ ~StartsWith(after_priorities, <<"-", "-", "-">>)
         THEN NL ELSE <<>>) \o
        after_priorities

\* concerns_text of update_concern_in_daily_note
concerns_text(sorted) == JoinSp([i \in 1..Len(sorted) |-> ItemText(sorted[i])])

\* The line test of the skip loop of update_concern_in_daily_note
IsConcernLine(line) ==
    LET stripped == Strip(line)
    IN  StartsWith(stripped, <<">">>) \/ stripped = <<>>

\* end_idx of the skip loop of update_concern_in_daily_note
RECURSIVE ConcEndIdx(_)
ConcEndIdx(lines) ==
    IF lines # <<>> /\ IsConcernLine(lines[1]) THEN 1 + ConcEndIdx(Tail(lines)) ELSE 0

\* concerns.update_concern_in_daily_note, the patch
concerns_patch(content, sorted) ==
    LET section_marker == ConcMarker
    IN
    IF ~Contains(content, section_marker) THEN None
    ELSE
    LET marker_pos == Find(content, section_marker, 0)
        marker_end == marker_pos + Len(section_marker)
        rest_of_content == Slice(content, marker_end, Len(content))
        lines == Split(rest_of_content)
        remaining_lines == IF Len(lines) > 1 THEN Tail(lines) ELSE <<>>
        end_idx == ConcEndIdx(remaining_lines)
        after_concern ==
            IF end_idx < Len(remaining_lines)
            THEN Join(SubSeq(remaining_lines, end_idx + 1, Len(remaining_lines)))
            ELSE <<>>
    IN  Slice(content, 0, marker_end) \o <<"\n", ">", " ">> \o concerns_text(sorted) \o NL \o
        (IF after_concern # <<>> /\ ~StartsWith(after_concern, NL) THEN NL ELSE <<>>) \o
        after_concern


\* ------------------------------------------------------------------ state

VARIABLES
    doc,        \* today's daily note on disk: its text, or NoFile
    created,    \* per reminders list, how many reminders were created so far
    completed,  \* the reminders marked complete in the source
    state,      \* today's state file: list key -> count, for the recorded keys
    inv,        \* per process, the locals of the running invocation
    runs,       \* invocations started so far
    edits,      \* edits made to the note from outside so far
    tally,      \* per list key, what unforced dispatcher runs did today (history)
    call,       \* the last call of a function studied on its own: its
                \* arguments and result
    days,       \* the date, the state files and notes of the other days, and
                \* on which day which key was recorded (history)
    applescript \* the two script files of /tmp and, per process, the call of
                \* run_applescript it is in

vars == <<doc, created, completed, state, inv, runs, edits, tally, call, days,
          applescript>>

\* daily_note.exists() is false
NoFile == <<"NoFile">>

\* The line an edit from outside appends (another device, a person typing)
OutsideLine == <<"z", "\n">>

\* Bounds of the modelled day
MaxRuns == 2
MaxEdits == 1

\* The processes that can run an invocation; Spec schedules one at a time.
AllProcs == {"A", "B"}
Procs == {"A"}

\* The daily note as the template leaves it.
Template ==
    PrioMarker \o NL \o
    <<"1", ".", " ", "-", " ", "[", " ", "]", "\n">> \o
    ConcMarker \o NL \o <<">", "\n">> \o
    LogMarker \o NL \o <<"-", "-", "-", "\n">>

\* A note whose priorities and concerns markers were edited away.
LogOnly == <<"k", "\n">> \o LogMarker \o NL

InitDocs == {NoFile, Template, LogOnly}

\* What the dispatcher is asked to run: a morning list and the log, the log
\* alone, and explicit names one of which is no key of LISTS.
KeyLists == {<<"priorities", "log">>, <<"log">>, <<"nosuch", "priorities">>}

\* The standalone scripts and the list each one syncs
Standalone == {"main", "priorities", "concerns"}
KeyOfProg(prog) == IF prog = "main" THEN "log" ELSE prog

IdleInv ==
    [prog |-> "none", pc |-> "idle", keys |-> <<>>, force |-> FALSE, cur |-> "",
     entries |-> <<>>, content |-> <<>>, new_content |-> <<>>, batch |-> <<>>,
     attempt |-> 0, success_count |-> 0, fail_count |-> 0, status |-> -1,
     success |-> FALSE, count |-> 0,
     verified |-> FALSE, verified_at |-> 0, acked |-> <<>>, ack_called |-> FALSE,
     writes |-> 0, outcome |-> "none",
     marked_count |-> -1,    \* what the acknowledge script counted, -1: none ran
     requested |-> <<>>,     \* list_keys as run_lists was given them (history)
     outcomes |-> <<>>]      \* how each section of this run ended (history)

\* The locals of one section sync, as they are when it starts
FreshSync(r, key) ==
    [r EXCEPT !.cur = key, !.pc = "fetch", !.entries = <<>>, !.content = <<>>,
              !.new_content = <<>>, !.batch = <<>>, !.attempt = 0,
              !.success = FALSE, !.count = 0,
              !.verified = FALSE, !.verified_at = 0, !.acked = <<>>,
              !.ack_called = FALSE, !.writes = 0, !.outcome = "none",
              !.marked_count = -1]

\* no such function was called yet
NoCall == [fn |-> "none"]

\* No script: the content of a script file that does not exist, and what a
\* call has run before osascript ran
NoScript == [kind |-> "none", arg |-> <<>>]

\* Nothing in /tmp and no call of run_applescript under way
NoScripts ==
    [source_path |-> NoScript, compiled_path |-> NoScript,
     run |-> [p \in AllProcs |-> [pc |-> "idle", script |-> NoScript,
                                  ran |-> NoScript, success |-> FALSE]]]

\* The days the clock goes through
MaxDay == 2

\* Day 1 with an empty state directory and no note of another day
FirstDay ==
    [today |-> 1, state_files |-> [d \in {} |-> 0], notes |-> [d \in {} |-> 0],
     marked |-> {}]

Init ==
    /\ doc \in InitDocs
    /\ created = [l \in ListNames |-> 0]
    /\ completed = {}
    /\ state = [k \in {} |-> 0]
    /\ inv = [p \in AllProcs |-> IdleInv]
    /\ runs = 0
    /\ edits = 0
    /\ tally = [k \in ListKeys |-> [verified |-> 0, ackfail |-> 0]]
    /\ call = NoCall
    /\ days = FirstDay
    /\ applescript = NoScripts

\* ------------------------------------------------------------- the source

\* The reminders of a list that are not completed, in creation order
Pending(list) ==
    LET RECURSIVE Upto(_)
        Upto(n) == IF n = 0 THEN <<>>
                   ELSE Upto(n - 1) \o
                        (IF Item(list, n) \in completed THEN <<>> ELSE <<Item(list, n)>>)
    IN  Upto(created[list])

Reverse(s) == [i \in 1..Len(s) |-> s[Len(s) + 1 - i]]

\* The orders in which the fetch script may list the pending reminders
FetchOrders(list) == {Pending(list), Reverse(Pending(list))}

\* A reminder is created in a list.
Arrive(list) ==
    /\ created[list] < Len(LettersOf(list))
    /\ created["3Priorities"] + created["Concerns"] + created["Log"] < MaxNew
    /\ created' = [created EXCEPT ![list] = @ + 1]
    /\ UNCHANGED <<doc, completed, state, inv, runs, edits, tally, call, days, applescript>>

\* The note is changed from outside: a line is appended.
ExternalEdit ==
    /\ doc # NoFile
    /\ edits < MaxEdits
    /\ doc' = doc \o OutsideLine
    /\ edits' = edits + 1
    /\ UNCHANGED <<created, completed, state, inv, runs, tally, call, days, applescript>>

\* ------------------------------------------------------------- dispatcher

\* dispatcher.mark_list_processed
mark_list_processed(st, list_key, count) ==
    [k \in (DOMAIN st) \cup {list_key} |-> IF k = list_key THEN count ELSE st[k]]

\* A check that never finds the record
is_list_processed_Never(st, list_key) == FALSE

\* dispatcher.is_list_processed
is_list_processed(st, list_key) == list_key \in DOMAIN st

\* The schedule of a key of LISTS
ScheduleOf(key) == LISTS[key].schedule

\* A run_lists that never records
StateAfterSync_NoRecord(st, key, success, count) == st

\* A run_lists that records whatever the count
StateAfterSync_AnyCount(st, key, success, count) ==
    IF success /\ ScheduleOf(key) # "always"
    THEN mark_list_processed(st, key, count)
    ELSE st

\* The state file after sync_list returned (success, count) to run_lists
StateAfterSync(st, key, success, count) ==
    IF success /\ count > 0 /\ ScheduleOf(key) # "always"
    THEN mark_list_processed(st, key, count)
    ELSE st

\* A loop that stops at the first failed section
KeysAfterFailure_Abort(keys) == <<>>

\* The keys run_lists still has to visit after a section failed: the failure
\* is counted and the for loop goes on with the next key
KeysAfterFailure(keys) == Tail(keys)

\* A run_lists that does not count the sections that failed
AfterSync_FailUncounted(r, success, count, outcome) ==
    IF r.prog = "dispatcher"
    THEN [r EXCEPT !.pc = "loop", !.outcome = outcome, !.keys = Tail(@),
                   !.outcomes = Append(@, outcome),
                   !.success = success, !.count = count,
                   !.success_count = IF success THEN @ + 1 ELSE @]
    ELSE [r EXCEPT !.pc = "done", !.outcome = outcome,
                   !.outcomes = Append(@, outcome),
                   !.success = success, !.count = count,
                   !.status = IF success THEN 0 ELSE 1]

\* The caller's locals after a section sync returned (success, count): in
\* run_lists the counters and the loop; in a standalone script the exit code.
AfterSync(r, success, count, outcome) ==
    IF r.prog = "dispatcher"
    THEN [r EXCEPT !.pc = "loop", !.outcome = outcome,
                   !.keys = IF success THEN Tail(@) ELSE KeysAfterFailure(@),
                   !.outcomes = Append(@, outcome),
                   !.success = success, !.count = count,
                   !.success_count = IF success THEN @ + 1 ELSE @,
                   !.fail_count = IF success THEN @ ELSE @ + 1]
    ELSE [r EXCEPT !.pc = "done", !.outcome = outcome,
                   !.outcomes = Append(@, outcome),
                   !.success = success, !.count = count,
                   !.status = IF success THEN 0 ELSE 1]

\* A section sync of process p returns (success, count).
SyncReturn(p, r, success, count, outcome) ==
    /\ inv' = [inv EXCEPT ![p] = AfterSync(r, success, count, outcome)]
    /\ state' = IF r.prog = "dispatcher"
                THEN StateAfterSync(state, r.cur, success, count)
                ELSE state

\* A cleanup that removes nothing
cleanup_old_state_files_Keep(files, today) == files

\* dispatcher.cleanup_old_state_files on the state files of the other days:
\* every file whose stem is not today's date is unlinked
cleanup_old_state_files(files, today) ==
    [d \in {x \in DOMAIN files : x = today} |-> files[d]]

\* A load_state that reads the newest state file, whatever its date
load_state_Latest(files, today) ==
    IF DOMAIN files = {} THEN [k \in {} |-> 0]
    ELSE files[CHOOSE d \in DOMAIN files : \A e \in DOMAIN files : e <= d]

\* dispatcher.get_state_file and load_state: the content of the file named
\* by today's date, {} when there is none
load_state(files, today) ==
    IF today \in DOMAIN files THEN files[today] ELSE [k \in {} |-> 0]

\* Midnight passes while no invocation holds the path of the daily note:
\* from now on get_state_file and get_daily_note_path name the files of the
\* next day. The note of the new day is there from the template or is not;
\* no state file of that day exists yet.
NextDay ==
    LET today == days.today
        files == IF DOMAIN state = {} THEN days.state_files
                 ELSE (today :> state) @@ days.state_files
    IN
    /\ today < MaxDay
    /\ \A p \in AllProcs : inv[p].pc \in {"idle", "loop", "done", "fetch", "prepare"}
    /\ days' = [days EXCEPT !.today = today + 1,
                            !.state_files = [d \in DOMAIN files \ {today + 1} |-> files[d]],
                            !.notes = (today :> doc) @@ days.notes]
    /\ state' = load_state(files, today + 1)
    /\ doc' \in {NoFile, Template}
    /\ tally' = [k \in ListKeys |-> [verified |-> 0, ackfail |-> 0]]
    /\ UNCHANGED <<created, completed, inv, runs, edits, call, applescript>>

\* dispatcher.main: an invocation of the dispatcher starts; the state files
\* of other days are removed first.
StartDispatcher(p) ==
    /\ inv[p].pc = "idle"
    /\ runs < MaxRuns
    /\ \E ks \in KeyLists, f \in BOOLEAN :
        inv' = [inv EXCEPT ![p] = [IdleInv EXCEPT !.prog = "dispatcher", !.pc = "loop",
                                                  !.keys = ks, !.force = f,
                                                  !.requested = ks,
                                                  !.success_count = 0, !.fail_count = 0]]
    /\ runs' = runs + 1
    /\ days' = [days EXCEPT !.state_files = cleanup_old_state_files(@, days.today)]
    /\ UNCHANGED <<doc, created, completed, state, edits, tally, call, applescript>>

\* One of the standalone scripts (main.py, priorities.py, concerns.py) starts.
StartStandalone(p) ==
    /\ inv[p].pc = "idle"
    /\ runs < MaxRuns
    /\ \E prog \in Standalone :
        inv' = [inv EXCEPT ![p] = FreshSync([IdleInv EXCEPT !.prog = prog], KeyOfProg(prog))]
    /\ runs' = runs + 1
    /\ UNCHANGED <<doc, created, completed, state, edits, tally, call, days, applescript>>

\* run_lists, one iteration of its loop up to the call of sync_list
RunListsNext(p) ==
    LET r == inv[p]
        list_key == Head(r.keys)
    IN
    /\ r.pc = "loop"
    /\ r.keys # <<>>
    /\ inv' = [inv EXCEPT ![p] =
          IF list_key \notin ListKeys
          THEN [FreshSync(r, list_key) EXCEPT !.pc = "loop",
                         !.keys = KeysAfterFailure(@),
                         !.outcomes = Append(@, "unknown"),
                         !.fail_count = @ + 1, !.outcome = "unknown"]
          ELSE IF ~r.force /\ ScheduleOf(list_key) # "always"
                  /\ is_list_processed(state, list_key)
          THEN [FreshSync(r, list_key) EXCEPT !.pc = "loop", !.keys = Tail(@),
                         !.outcomes = Append(@, "skipped"),
                         !.success_count = @ + 1, !.outcome = "skipped"]
          ELSE FreshSync(r, list_key)]
    /\ UNCHANGED <<doc, created, completed, state, runs, edits, tally, call, days, applescript>>

\* run_lists returns and dispatcher.main computes the exit status.
RunListsDone(p) ==
    LET r == inv[p]
    IN
    /\ r.pc = "loop"
    /\ r.keys = <<>>
    /\ inv' = [inv EXCEPT ![p] = [r EXCEPT !.pc = "done",
                                           !.status = IF r.fail_count = 0 THEN 0 ELSE 1]]
    /\ UNCHANGED <<doc, created, completed, state, runs, edits, tally, call, days, applescript>>

\* The process exits.
Exit(p) ==
    /\ inv[p].pc = "done"
    /\ inv' = [inv EXCEPT ![p] = IdleInv]
    /\ UNCHANGED <<doc, created, completed, state, runs, edits, tally, call, days, applescript>>


\* ------------------------------------------------------------ section sync

\* The name of the reminders list a section sync fetches
ListOf(key) == LISTS[key].reminders_list

\* sorted_entries: sync_list, main.py and concerns.py sort the fetched
\* entries; priorities.py sorts and keeps the first three.
BatchOf(prog, entries) ==
    IF prog = "priorities"
    THEN LET srt == SortByTs(entries)
         IN  SubSeq(srt, 1, IF Len(srt) < PRIORITY_SLOTS THEN Len(srt) ELSE PRIORITY_SLOTS)
    ELSE SortByTs(entries)

\* new_content, computed once from the content read before the retry loop
PatchOf(prog, key, content, batch) ==
    CASE prog = "main" -> append_patch(content, batch)
      [] prog = "priorities" -> priorities_patch(content, batch)
      [] prog = "concerns" -> concerns_patch(content, batch)
      [] OTHER -> insert_at_marker(content, LISTS[key].marker,
                                   EntriesText(batch, LISTS[key].format))

\* A check that accepts whatever it reads
VerifyOk_Always(prog, batch, verify_content) == TRUE

\* The check made on verify_content after a write
VerifyOk(prog, batch, verify_content) ==
    CASE prog = "priorities" -> Contains(verify_content, ItemText(batch[1]))
      [] prog = "concerns" -> Contains(verify_content, concerns_text(batch))
      [] OTHER -> \A i \in 1..Len(batch) : Contains(verify_content, ItemText(batch[i]))

\* get_reminders and the test on its result: the script fails (and the
\* result is the empty list) or lists the pending reminders in some order.
Fetch(p) ==
    LET r == inv[p]
    IN
    /\ r.pc = "fetch"
    /\ \E ok \in BOOLEAN :
       \E order \in (IF ok THEN FetchOrders(ListOf(r.cur)) ELSE {<<>>}) :
          IF order = <<>>
          THEN SyncReturn(p, r, TRUE, 0, IF ok THEN "empty" ELSE "fetchfail")
          ELSE /\ inv' = [inv EXCEPT ![p] = [r EXCEPT !.entries = order, !.pc = "prepare"]]
               /\ state' = state
    /\ UNCHANGED <<doc, created, completed, runs, edits, tally, call, days, applescript>>

\* daily_note.exists()
Exists(d) == d # NoFile

\* A missing note that is passed over as a success
MissingNoteResult_Success == TRUE

\* The success sync_list returns when today's note does not exist or cannot
\* be read: return False, 0
MissingNoteResult == FALSE

\* From the existence check of the daily note to new_content.
Prepare(p) ==
    LET r == inv[p]
        batch == BatchOf(r.prog, r.entries)
        new_content == PatchOf(r.prog, r.cur, doc, batch)
    IN
    /\ r.pc = "prepare"
    /\ \E readable \in BOOLEAN :
          IF ~Exists(doc)
          THEN SyncReturn(p, r, MissingNoteResult, 0, "nofile")
          ELSE IF ~readable
          THEN SyncReturn(p, r, MissingNoteResult, 0, "unreadable")
          ELSE IF new_content = None
          THEN SyncReturn(p, [r EXCEPT !.content = doc, !.batch = batch],
                          FALSE, 0, "nomarker")
          ELSE /\ inv' = [inv EXCEPT ![p] =
                            [r EXCEPT !.content = doc, !.batch = batch,
                                      !.new_content = new_content,
                                      !.attempt = 1, !.pc = "write"]]
               /\ state' = state
    /\ UNCHANGED <<doc, created, completed, runs, edits, tally, call, days, applescript>>

\* A write that patches the text it finds on the disk
StoredText_Repatched(r, on_disk) ==
    LET patched == PatchOf(r.prog, r.cur, on_disk, r.batch)
    IN  IF patched = None THEN r.new_content ELSE patched

\* The text write_text puts on the disk: new_content as it was computed from
\* the content this invocation read, whatever the file holds by now
StoredText(r, on_disk) == r.new_content

\* daily_note.write_text(new_content) of the current attempt: the text
\* reaches the disk, or the call returns and the text does not stay on the
\* disk (the syncing filesystem puts the earlier version back), or it raises.
Write(p) ==
    LET r == inv[p]
    IN
    /\ r.pc = "write"
    /\ \E res \in {"stored", "lost", "raised"} :
          CASE res = "stored" ->
                 /\ doc' = StoredText(r, doc)
                 /\ inv' = [inv EXCEPT ![p] = [r EXCEPT !.writes = @ + 1, !.pc = "verify"]]
                 /\ state' = state
            [] res = "lost" ->
                 /\ doc' = doc
                 /\ inv' = [inv EXCEPT ![p] = [r EXCEPT !.writes = @ + 1, !.pc = "verify"]]
                 /\ state' = state
            [] OTHER ->
                 /\ doc' = doc
                 /\ IF r.attempt < RETRY_ATTEMPTS
                    THEN /\ inv' = [inv EXCEPT ![p] = [r EXCEPT !.attempt = @ + 1]]
                         /\ state' = state
                    ELSE SyncReturn(p, r, FALSE, 0, "writefail")
    /\ UNCHANGED <<created, completed, runs, edits, tally, call, days, applescript>>

\* A retry loop that falls through to the acknowledge when it is exhausted
AfterMissing_FallThrough(attempt) == IF attempt < RETRY_ATTEMPTS THEN "reread" ELSE "ack"

\* What follows a failed check of verify_content on the given attempt:
\* another attempt after a re-read, or the return of failure.
AfterMissing(attempt) == IF attempt < RETRY_ATTEMPTS THEN "reread" ELSE "return"

\* Whether the section sync counts as unforced dispatcher work on a list
\* whose schedule is not "always" (what the history in tally is about)
Tallied(r) == r.prog = "dispatcher" /\ ~r.force /\ ScheduleOf(r.cur) # "always"

\* The re-read after the settle delay and the check of verify_content.
Verify(p) ==
    LET r == inv[p]
    IN
    /\ r.pc = "verify"
    /\ \E readable \in BOOLEAN :
          IF ~readable
          THEN /\ tally' = tally
               /\ IF r.attempt < RETRY_ATTEMPTS
                  THEN /\ inv' = [inv EXCEPT ![p] = [r EXCEPT !.attempt = @ + 1,
                                                             !.pc = "write"]]
                       /\ state' = state
                  ELSE SyncReturn(p, r, FALSE, 0, "writefail")
          ELSE IF ~VerifyOk(r.prog, r.batch, doc)
          THEN /\ tally' = tally
               /\ CASE AfterMissing(r.attempt) = "reread" ->
                         /\ inv' = [inv EXCEPT ![p] = [r EXCEPT !.pc = "reread"]]
                         /\ state' = state
                    [] AfterMissing(r.attempt) = "return" ->
                         SyncReturn(p, r, FALSE, 0, "verifyfail")
                    [] OTHER ->
                         /\ inv' = [inv EXCEPT ![p] = [r EXCEPT !.pc = AfterMissing(r.attempt)]]
                         /\ state' = state
          ELSE /\ inv' = [inv EXCEPT ![p] = [r EXCEPT !.verified = TRUE,
                                                      !.verified_at = r.attempt,
                                                      !.pc = "ack"]]
               /\ state' = state
               /\ tally' = IF Tallied(r)
                           THEN [tally EXCEPT ![r.cur].verified = @ + 1]
                           ELSE tally
    /\ UNCHANGED <<doc, created, completed, runs, edits, call, days, applescript>>

\* After the retry delay: content = daily_note.read_text(); continue.
\* new_content is not assigned again.
Reread(p) ==
    LET r == inv[p]
    IN
    /\ r.pc = "reread"
    /\ inv' = [inv EXCEPT ![p] = [r EXCEPT !.content = doc, !.attempt = @ + 1,
                                           !.pc = "write"]]
    /\ UNCHANGED <<doc, created, completed, state, runs, edits, tally, call, days, applescript>>

\* An acknowledge failure that is only a warning
AckResult_Warning(ok) == TRUE

\* The success sync_list returns after mark_reminders_complete returned ok:
\* (False, n) when it failed, (True, n) otherwise. The standalone scripts
\* return 1 and 0 in the same two cases.
AckResult(ok) == ok

\* An acknowledge that fails when the script marked fewer reminders than
\* it was given
mark_reminders_complete_Strict(success, marked_count, n) ==
    success /\ marked_count = n

\* What sync.mark_reminders_complete returns for n ids when run_applescript
\* returned success and the script counted marked_count marked reminders: a
\* count that differs from n is logged as a warning
mark_reminders_complete(success, marked_count, n) == success

\* mark_reminders_complete(written_ids) and the return that follows it. The
\* script fails and marks nothing, or it runs and marks the reminders it can
\* (each id in a try block of its own), all of them or fewer.
Ack(p) ==
    LET r == inv[p]
        written_ids == Ids(r.batch)
    IN
    /\ r.pc = "ack"
    /\ \E success \in BOOLEAN :
       \E marked \in (IF success THEN SUBSET IdSet(written_ids) ELSE {{}}) :
          LET ok == mark_reminders_complete(success, Cardinality(marked),
                                            Len(written_ids))
              called == [r EXCEPT !.acked = written_ids, !.ack_called = TRUE,
                                  !.marked_count =
                                      IF success THEN Cardinality(marked) ELSE -1]
          IN  /\ completed' = completed \cup marked
              /\ SyncReturn(p, called, AckResult(ok), Len(written_ids),
                            IF ok THEN "ok" ELSE "ackfail")
              /\ tally' = IF ~ok /\ Tallied(r)
                          THEN [tally EXCEPT ![r.cur].ackfail = @ + 1]
                          ELSE tally
              /\ days' = IF r.prog = "dispatcher" /\ ok
                                /\ ScheduleOf(r.cur) # "always"
                         THEN [days EXCEPT !.marked = @ \cup {<<days.today, r.cur>>}]
                         ELSE days
    /\ UNCHANGED <<doc, created, runs, edits, call, applescript>>

\* ------------------------------------------------------- specifications

\* The steps of a section sync, whoever called it
SyncStep(p) ==
    \/ Fetch(p)
    \/ Prepare(p)
    \/ Write(p)
    \/ Verify(p)
    \/ Reread(p)
    \/ Ack(p)
    \/ Exit(p)

\* The dispatcher, one invocation at a time
Next ==
    \/ \E p \in Procs : StartDispatcher(p) \/ RunListsNext(p) \/ RunListsDone(p)
    \/ \E p \in Procs : SyncStep(p)
    \/ \E list \in {"3Priorities", "Log"} : Arrive(list)
    \/ ExternalEdit

\* The standalone scripts, one invocation at a time
NextStandalone ==
    \/ \E p \in Procs : StartStandalone(p)
    \/ \E p \in Procs : SyncStep(p)
    \/ \E list \in ListNames : Arrive(list)
    \/ ExternalEdit

\* The dispatcher and the standalone scripts, one invocation at a time
NextAll ==
    \/ \E p \in Procs : StartDispatcher(p) \/ StartStandalone(p)
    \/ \E p \in Procs : RunListsNext(p) \/ RunListsDone(p)
    \/ \E p \in Procs : SyncStep(p)
    \/ \E list \in ListNames : Arrive(list)
    \/ ExternalEdit

\* sync_list raises instead of returning: daily_note.exists() is outside
\* every try of sync_list and raises PermissionError when the notes folder
\* may not be read. The except clause of run_lists counts the section as
\* failed and the loop goes on.
SyncRaises(p) ==
    LET r == inv[p]
    IN
    /\ r.prog = "dispatcher"
    /\ r.pc = "prepare"
    /\ inv' = [inv EXCEPT ![p] =
                  [r EXCEPT !.pc = "loop", !.outcome = "exception",
                            !.keys = KeysAfterFailure(@),
                            !.outcomes = Append(@, "exception"),
                            !.fail_count = @ + 1]]
    /\ UNCHANGED <<doc, created, completed, state, runs, edits, tally, call, days, applescript>>

\* The dispatcher when a section sync may also raise
NextIsolation ==
    \/ \E p \in Procs : StartDispatcher(p) \/ RunListsNext(p) \/ RunListsDone(p)
    \/ \E p \in Procs : SyncStep(p) \/ SyncRaises(p)
    \/ \E list \in {"3Priorities", "Log"} : Arrive(list)
    \/ ExternalEdit

\* The note of the overlapping invocations is the one the template left.
InitOverlap == Init /\ doc = Template

\* "dispatcher.py log" is started, by the scheduler or by hand.
StartLogSync(p) ==
    /\ StartDispatcher(p)
    /\ inv'[p].requested = <<"log">>
    /\ ~inv'[p].force

\* A record that is written before the section runs
StateAfterKill_Recorded(st, key, count) == mark_list_processed(st, key, count)

\* The state file when the process dies inside sync_list: mark_list_processed
\* comes after sync_list has returned, so nothing was recorded
StateAfterKill(st, key, count) == st

\* The process of an invocation is killed (SIGKILL, power loss) during a
\* section sync and never resumes; what it wrote stays. Killed while the
\* acknowledge script runs, some of the reminders may be marked already.
Kill(p) ==
    LET r == inv[p]
    IN
    /\ r.pc \in {"fetch", "prepare", "write", "verify", "reread", "ack"}
    /\ \E marked \in (IF r.pc = "ack" THEN SUBSET IdSet(r.batch) ELSE {{}}) :
          completed' = completed \cup marked
    /\ inv' = [inv EXCEPT ![p] = [r EXCEPT !.pc = "killed", !.outcome = "killed"]]
    /\ state' = StateAfterKill(state, r.cur, Len(r.batch))
    /\ UNCHANGED <<doc, created, runs, edits, tally, call, days, applescript>>

\* The scheduler starts the dispatcher when no other invocation runs.
StartSerial(p) ==
    /\ \A q \in AllProcs \ {p} : inv[q].pc \in {"idle", "done", "killed"}
    /\ StartDispatcher(p)

\* Serialized invocations of the dispatcher, any of which may be killed
NextKill ==
    \/ \E p \in AllProcs :
          \/ StartSerial(p)
          \/ RunListsNext(p)
          \/ RunListsDone(p)
          \/ SyncStep(p)
          \/ Kill(p)
    \/ Arrive("3Priorities")

\* Two invocations of the dispatcher at the same time: nothing keeps the
\* second from starting while the first runs
NextOverlap ==
    \/ \E p \in AllProcs :
          \/ StartLogSync(p)
          \/ RunListsNext(p)
          \/ RunListsDone(p)
          \/ SyncStep(p)
    \/ Arrive("Log")

\* The dispatcher over the days: the date changes between two sections or
\* two invocations
NextDays ==
    \/ \E p \in Procs :
          \/ StartDispatcher(p)
          \/ RunListsNext(p)
          \/ RunListsDone(p)
          \/ Exit(p)
          \/ SyncStep(p)
    \/ \E list \in {"3Priorities", "Log"} : Arrive(list)
    \/ NextDay

\* A step without the faults of the environment: no section sync ends
\* because its write never verified, and the acknowledge script marks every
\* reminder it is given.
FaultFree ==
    \A p \in Procs :
        /\ inv'[p].outcome \notin {"writefail", "verifyfail", "ackfail"}
        /\ inv[p].pc = "ack" => IdSet(inv[p].batch) \subseteq completed'

\* The dispatcher over the days, one invocation at a time, none killed, in
\* an environment without those faults
NextFaultFree ==
    \/ \E p \in Procs :
          \/ StartDispatcher(p)
          \/ RunListsNext(p)
          \/ RunListsDone(p)
          \/ Exit(p)
    \/ \E p \in Procs : SyncStep(p) /\ FaultFree
    \/ \E list \in {"3Priorities", "Log"} : Arrive(list)
    \/ NextDay

\* ------------------------------------------------------ the inbound entry

\* The section table of the server: section name -> marker and format.
\* server.py imports it from config; here it has the sections of LISTS.
SECTIONS ==
    [k \in ListKeys |-> [marker |-> LISTS[k].marker, format |-> LISTS[k].format]]

\* str.lower() on the section names used here
Lower(name) == IF name = "Log" THEN "log" ELSE name

\* text.split(",")
RECURSIVE SplitComma(_)
SplitComma(s) ==
    LET i == Find(s, <<",">>, 0)
    IN  IF i = -1 THEN <<s>>
        ELSE <<Slice(s, 0, i)>> \o SplitComma(Slice(s, i + 1, Len(s)))

\* One element of a JSON array, for elements that are strings without
\* escapes and commas, or numbers: its kind, and its value for a string
JsonElement(e) ==
    LET t == Strip(e)
        n == Len(t)
    IN  IF n >= 2 /\ t[1] = "\"" /\ t[n] = "\""
           /\ \A i \in 2..(n - 1) : t[i] \notin {"\"", "\\"}
        THEN [kind |-> "str", val |-> Slice(t, 1, n - 1)]
        ELSE IF n >= 1 /\ (\A i \in 1..n : IsDigit(t[i])) /\ (n = 1 \/ t[1] # "0")
        THEN [kind |-> "num", val |-> <<>>]
        ELSE [kind |-> "bad", val |-> <<>>]

\* json.loads of a text that starts with "[" and ends with "]": the list of
\* its elements, or JSONDecodeError
JsonLoads(text) ==
    LET inner == Strip(Slice(text, 1, Len(text) - 1))
        parts == SplitComma(inner)
        elems == [i \in 1..Len(parts) |-> JsonElement(parts[i])]
    IN  IF inner = <<>> THEN [ok |-> TRUE, list |-> <<>>]
        ELSE IF \E i \in 1..Len(elems) : elems[i].kind = "bad"
        THEN [ok |-> FALSE, list |-> <<>>]
        ELSE [ok |-> TRUE, list |-> elems]

\* [t.strip() for t in parsed if isinstance(t, str) and t.strip()]
RECURSIVE StrippedStrings(_)
StrippedStrings(list) ==
    IF list = <<>> THEN <<>>
    ELSE LET t == list[1]
         IN  (IF t.kind = "str" /\ Strip(t.val) # <<>> THEN <<Strip(t.val)>> ELSE <<>>)
                 \o StrippedStrings(Tail(list))

\* A bracketed text that does not parse and is dropped
BracketFallback_Reject(t) == <<>>

\* texts after json.loads raised JSONDecodeError on the bracketed text t:
\* [text[1:-1].strip()] if len(text) > 2 else []
BracketFallback(t) ==
    IF Len(t) > 2 THEN <<Strip(Slice(t, 1, Len(t) - 1))>> ELSE <<>>

\* The texts process_entry makes of entry["text"]: a string, a list, or a
\* value of another type
NormalizeTexts(text) ==
    CASE text.kind = "str" ->
            LET t == Strip(text.val)
            IN  IF StartsWith(t, <<"[">>) /\ t[Len(t)] = "]"
                THEN IF JsonLoads(t).ok
                     THEN StrippedStrings(JsonLoads(t).list)
                     ELSE BracketFallback(t)
                ELSE IF t # <<>> THEN <<t>> ELSE <<>>
      [] text.kind = "list" -> StrippedStrings(text.val)
      [] OTHER -> <<>>

\* datetime.now().strftime("%H:%M") at the time of the request
TimeStr == <<"0", "9", ":", "0", "5">>

\* formatted_lines of process_entry
EntryLines(texts, fmt, add_timestamp) ==
    [i \in 1..Len(texts) |->
        IF add_timestamp THEN <<"-", " ">> \o TimeStr \o <<" ">> \o texts[i]
        ELSE format_entry(texts[i], fmt, i)]

\* An unknown section that is accepted
UnknownSectionResult_Ok == TRUE

\* The success process_entry returns for a section that is not in SECTIONS
UnknownSectionResult == FALSE

\* server.process_entry on an entry, with the daily note as it is on the
\* disk: (success, message), and the text it writes, None when it writes
\* nothing. readable and writable tell whether read_text and write_text work.
process_entry(entry, note, readable, writable) ==
    LET section == Lower(entry.section)
        texts == NormalizeTexts(entry.text)
        Result(ok, msg, out) ==
            [success |-> ok, message |-> msg, texts |-> texts, written |-> out]
    IN  IF section = "" \/ texts = <<>> THEN Result(FALSE, "invalid", None)
        ELSE IF section \notin DOMAIN SECTIONS
        THEN Result(UnknownSectionResult, "unknown", None)
        ELSE IF ~Exists(note) THEN Result(FALSE, "nofile", None)
        ELSE IF ~readable THEN Result(FALSE, "unreadable", None)
        ELSE LET config == SECTIONS[section]
                 formatted == Join(EntryLines(texts, config.format, entry.timestamp))
                 new_content == server_insert_at_marker(note, config.marker, formatted)
             IN  IF new_content = None THEN Result(FALSE, "nomarker", None)
                 ELSE IF ~writable THEN Result(FALSE, "writefail", None)
                 ELSE Result(TRUE, "ok", new_content)

\* The entries the server is sent
EntrySections == {"log", "Log", "priorities", "nosuch", ""}

Str(val) == [kind |-> "str", val |-> val]

EntryTexts ==
    { Str(<<"a">>), Str(<<" ", "a", " ">>), Str(<<>>),
      Str(<<"[", "a", "]">>), Str(<<"[", "]">>), Str(<<"[", " ", "a", ",", "b", "]">>),
      Str(<<"[", "\"", "a", "\"", ",", " ", "\"", "b", "\"", "]">>),
      Str(<<"[", "\"", "a", "\"", ",", "1", "]">>),
      [kind |-> "list", val |-> <<Str(<<"a">>), Str(<<" ">>), Str(<<"b", " ">>)>>],
      [kind |-> "other", val |-> <<>>] }

Entries ==
    [section : EntrySections, text : EntryTexts, timestamp : BOOLEAN]

\* do_POST on /obsidian/daily with a JSON object: process_entry runs and the
\* response carries its outcome.
PostEntry(entry) ==
    /\ runs < MaxRuns
    /\ \E readable \in BOOLEAN, writable \in BOOLEAN :
          LET res == process_entry(entry, doc, readable, writable)
          IN  /\ doc' = IF res.written = None THEN doc ELSE res.written
              /\ call' = [fn |-> "process_entry", entry |-> entry,
                          success |-> res.success, message |-> res.message,
                          texts |-> res.texts]
    /\ runs' = runs + 1
    /\ UNCHANGED <<created, completed, state, inv, edits, tally, days, applescript>>

\* The server and a dispatcher whose lists have nothing pending
NextEntry ==
    \/ \E entry \in Entries : PostEntry(entry)
    \/ \E p \in Procs : StartDispatcher(p) \/ RunListsNext(p) \/ RunListsDone(p)
    \/ \E p \in Procs : Fetch(p) \/ Exit(p)

\* A day that starts with a backlog of pending priorities reminders
InitBacklog ==
    /\ doc \in InitDocs
    /\ created = [l \in ListNames |-> IF l = "3Priorities" THEN Backlog ELSE 0]
    /\ completed = {}
    /\ state = [k \in {} |-> 0]
    /\ inv = [p \in AllProcs |-> IdleInv]
    /\ runs = 0
    /\ edits = 0
    /\ tally = [k \in ListKeys |-> [verified |-> 0, ackfail |-> 0]]
    /\ call = NoCall
    /\ days = FirstDay
    /\ applescript = NoScripts

\* The dispatcher and the standalone scripts on that day; no reminder arrives
NextBacklog ==
    \/ \E p \in Procs : StartDispatcher(p) \/ StartStandalone(p)
    \/ \E p \in Procs : RunListsNext(p) \/ RunListsDone(p)
    \/ \E p \in Procs : SyncStep(p)
    \/ ExternalEdit

\* ------------------------------------------------- the patchers on their own

\* The reminders the batches of a patch are drawn from: the first
\* MaxBatchItem of the priorities list
MaxBatchItem == 4

\* The elements of a set of reminders of one list, in creation order
RECURSIVE InOrder(_)
InOrder(S) ==
    IF S = {} THEN <<>>
    ELSE LET first == CHOOSE it \in S : \A o \in S : it.n <= o.n
         IN  <<first>> \o InOrder(S \ {first})

\* The batches update_priorities_in_daily_note can be given: one to three
\* reminders, sorted
PrioBatches ==
    {InOrder(S) : S \in {T \in SUBSET {Item("3Priorities", n) : n \in 1..MaxBatchItem} :
                            Cardinality(T) \in 1..PRIORITY_SLOTS}}

EmptySlot(i) == Digit(i) \o <<".", " ", "-", " ", "[", " ", "]">>

\* Documents of the shapes the priorities patch distinguishes
PatchDocs ==
    { Template,
      <<"k", "\n">> \o PrioMarker,
      PrioMarker \o NL \o <<"-", "-", "-", "\n">>,
      PrioMarker \o NL \o EmptySlot(1) \o NL \o EmptySlot(2) \o NL \o EmptySlot(3) \o NL
          \o <<"k", "\n">>,
      PrioMarker \o NL \o <<"k", "\n">>,
      PrioMarker \o <<" ", "k", "\n">> \o EmptySlot(1) \o NL,
      PrioMarker \o NL \o NL \o <<"k", "\n">>,
      LogOnly }

InitPatch ==
    /\ doc \in PatchDocs
    /\ created = [l \in ListNames |-> 0]
    /\ completed = {}
    /\ state = [k \in {} |-> 0]
    /\ inv = [p \in AllProcs |-> IdleInv]
    /\ runs = 0
    /\ edits = 0
    /\ tally = [k \in ListKeys |-> [verified |-> 0, ackfail |-> 0]]
    /\ call = NoCall
    /\ days = FirstDay
    /\ applescript = NoScripts

\* update_priorities_in_daily_note patches the document with a batch and the
\* write stores the result (nothing is written when the marker is absent).
ApplyPrioritiesPatch(p, batch) ==
    LET new_content == priorities_patch(doc, batch)
    IN
    /\ runs < MaxRuns
    /\ doc' = IF new_content = None THEN doc ELSE new_content
    /\ inv' = [inv EXCEPT ![p].prog = "priorities", ![p].cur = "priorities",
                          ![p].batch = batch, ![p].content = doc,
                          ![p].new_content = new_content]
    /\ runs' = runs + 1
    /\ UNCHANGED <<created, completed, state, edits, tally, call, days, applescript>>

NextPatch ==
    \E p \in Procs, batch \in PrioBatches : ApplyPrioritiesPatch(p, batch)

\* The three pieces of code that patch the section of a header marker
HeaderPatchers == {"dispatcher", "main", "server"}

\* new_content as each of them computes it for the log section
HeaderPatch(via, content, batch) ==
    CASE via = "main" -> append_patch(content, batch)
      [] via = "server" ->
            server_insert_at_marker(content, LogMarker,
                                    Join(FormattedLines(batch, LISTS["log"].format)))
      [] OTHER -> insert_at_marker(content, LogMarker,
                                   EntriesText(batch, LISTS["log"].format))

\* The batches of the log section: one or two reminders, sorted
LogBatches ==
    {InOrder(S) : S \in {T \in SUBSET {Item("Log", n) : n \in 1..MaxBatchItem} :
                            Cardinality(T) \in 1..2}}

\* Documents of the shapes the header patch distinguishes: nothing after the
\* header line, a divider right after it, text then a divider, text then a
\* heading, text and no boundary, the header as the last line without a
\* newline at its end, and no header at all
HeaderDocs ==
    { LogOnly,
      <<"k", "\n">> \o LogMarker,
      Template,
      LogMarker \o NL \o <<"k", "\n", "-", "-", "-", "\n">>,
      LogMarker \o NL \o <<"k", "\n", "#", "#", " ", "M", "\n", "-", "-", "-", "\n">>,
      LogMarker \o NL \o <<"k", "\n">>,
      <<"k", "\n">> }

InitHeader ==
    /\ doc \in HeaderDocs
    /\ created = [l \in ListNames |-> 0]
    /\ completed = {}
    /\ state = [k \in {} |-> 0]
    /\ inv = [p \in AllProcs |-> IdleInv]
    /\ runs = 0
    /\ edits = 0
    /\ tally = [k \in ListKeys |-> [verified |-> 0, ackfail |-> 0]]
    /\ call = NoCall
    /\ days = FirstDay
    /\ applescript = NoScripts

\* One of the header patchers patches the document with a batch and the
\* write stores the result (nothing is written when the marker is absent).
ApplyHeaderPatch(p, via, batch) ==
    LET new_content == HeaderPatch(via, doc, batch)
    IN
    /\ runs < MaxRuns
    /\ doc' = IF new_content = None THEN doc ELSE new_content
    /\ inv' = [inv EXCEPT ![p].prog = via, ![p].cur = "log",
                          ![p].batch = batch, ![p].content = doc,
                          ![p].new_content = new_content]
    /\ runs' = runs + 1
    /\ UNCHANGED <<created, completed, state, edits, tally, call, days, applescript>>

NextHeader ==
    \E p \in Procs, via \in HeaderPatchers, batch \in LogBatches :
        ApplyHeaderPatch(p, via, batch)

\* ---------------------------------------------- one pending concern

\* A note that holds the concerns marker and its bare placeholder only
ConcernOnly == ConcMarker \o NL \o <<">", "\n">>

\* One reminder is pending in the Concerns list; the note has the marker
\* line followed by the placeholder line.
InitConcern ==
    /\ doc \in {ConcernOnly, Template}
    /\ created = [l \in ListNames |-> IF l = "Concerns" THEN 1 ELSE 0]
    /\ completed = {}
    /\ state = [k \in {} |-> 0]
    /\ inv = [p \in AllProcs |-> IdleInv]
    /\ runs = 0
    /\ edits = 0
    /\ tally = [k \in ListKeys |-> [verified |-> 0, ackfail |-> 0]]
    /\ call = NoCall
    /\ days = FirstDay
    /\ applescript = NoScripts

\* The concerns section is synced: by the dispatcher called with the key
\* "concerns", or by concerns.py.
StartConcernsSync(p) ==
    /\ inv[p].pc = "idle"
    /\ runs < MaxRuns
    /\ \/ \E f \in BOOLEAN :
            inv' = [inv EXCEPT ![p] = [IdleInv EXCEPT !.prog = "dispatcher", !.pc = "loop",
                                                      !.keys = <<"concerns">>, !.force = f,
                                                      !.success_count = 0, !.fail_count = 0]]
       \/ inv' = [inv EXCEPT ![p] = FreshSync([IdleInv EXCEPT !.prog = "concerns"], "concerns")]
    /\ runs' = runs + 1
    /\ UNCHANGED <<doc, created, completed, state, edits, tally, call, days, applescript>>

NextConcern ==
    \/ \E p \in Procs : StartConcernsSync(p)
    \/ \E p \in Procs : RunListsNext(p) \/ RunListsDone(p)
    \/ \E p \in Procs : SyncStep(p)
    \/ ExternalEdit

\* ------------------------------------------------ the field patchers alone

\* Documents of the shapes a field patch distinguishes: after the marker
\* line a bare ">", a blank line, "1.", a ">" with blanks around it, a line
\* with text, text on the marker line itself, nothing at all; and a document
\* without the marker
FieldDocs ==
    { ConcernOnly,
      Template,
      ConcMarker \o NL \o NL \o <<"k", "\n">>,
      ConcMarker \o NL \o <<"1", ".", "\n", "k", "\n">>,
      ConcMarker \o NL \o <<" ", ">", " ", "\n">>,
      ConcMarker \o NL \o <<">", " ", "k", "\n", ">", "\n">>,
      ConcMarker \o <<" ", "k", "\n", ">", "\n">>,
      ConcMarker \o NL,
      <<"k", "\n">> }

\* The batches of the concerns section: one or two reminders, sorted
FieldBatches ==
    {InOrder(S) : S \in {T \in SUBSET {Item("Concerns", n) : n \in 1..MaxBatchItem} :
                            Cardinality(T) \in 1..2}}

InitField ==
    /\ doc \in FieldDocs
    /\ created = [l \in ListNames |-> 0]
    /\ completed = {}
    /\ state = [k \in {} |-> 0]
    /\ inv = [p \in AllProcs |-> IdleInv]
    /\ runs = 0
    /\ edits = 0
    /\ tally = [k \in ListKeys |-> [verified |-> 0, ackfail |-> 0]]
    /\ call = NoCall
    /\ days = FirstDay
    /\ applescript = NoScripts

\* sync.insert_at_marker (as sync_list calls it), server.insert_at_marker
\* (as process_entry calls it) or the patch of concerns.py patches the
\* document with a batch of the concerns section and the write stores the
\* result (nothing is written when the marker is absent).
ApplyFieldPatch(p, via, batch) ==
    LET fmt == LISTS["concerns"].format
        new_content ==
            IF via = "server"
            THEN server_insert_at_marker(doc, ConcMarker, Join(FormattedLines(batch, fmt)))
            ELSE IF via = "concerns" THEN concerns_patch(doc, batch)
            ELSE insert_at_marker(doc, ConcMarker, EntriesText(batch, fmt))
    IN
    /\ runs < MaxRuns
    /\ doc' = IF new_content = None THEN doc ELSE new_content
    /\ inv' = [inv EXCEPT ![p].prog = via, ![p].cur = "concerns",
                          ![p].batch = batch, ![p].content = doc,
                          ![p].new_content = new_content]
    /\ runs' = runs + 1
    /\ UNCHANGED <<created, completed, state, edits, tally, call, days, applescript>>

NextField ==
    \E p \in Procs, via \in {"dispatcher", "server", "concerns"}, batch \in FieldBatches :
        ApplyFieldPatch(p, via, batch)

\* ---------------------------------------------------- the renderers alone

\* The format styles of config.py
Formats == {FORMAT_BLOCKQUOTE, FORMAT_BULLET, FORMAT_NUMBERED, FORMAT_CHECKBOX,
            FORMAT_PLAIN}

\* Reminder texts: empty, one letter, with blanks around it and inside it, and
\* texts that themselves begin like a formatted line
Texts ==
    { <<>>, <<"a">>, <<" ", "a">>, <<"a", " ">>, <<"a", " ", "b">>,
      <<">", " ", "a">>, <<"-", " ", "a">>, <<"1", ".", " ", "a">> }

\* The largest index a line of a batch gets
MaxIndex == 3

\* The two writers of the priorities section: sync_list driven by
\* LISTS["priorities"], and update_priorities_in_daily_note of priorities.py
PrioritiesWriters == {"sync", "priorities"}

InitRender ==
    /\ doc = NoFile
    /\ created = [l \in ListNames |-> 0]
    /\ completed = {}
    /\ state = [k \in {} |-> 0]
    /\ inv = [p \in AllProcs |-> IdleInv]
    /\ runs = 0
    /\ edits = 0
    /\ tally = [k \in ListKeys |-> [verified |-> 0, ackfail |-> 0]]
    /\ call = NoCall
    /\ days = FirstDay
    /\ applescript = NoScripts

\* One call format_entry(text, fmt, index)
CallFormatEntry(text, fmt, index) ==
    /\ call' = [fn |-> "format_entry", text |-> text, fmt |-> fmt, index |-> index,
                result |-> format_entry(text, fmt, index)]
    /\ UNCHANGED <<doc, created, completed, state, inv, runs, edits, tally, days, applescript>>

\* The lines one writer builds for a batch of the priorities section: each
\* item's line, without the padding lines of priorities.py
RenderPriorities(via, batch) ==
    /\ call' = [fn |-> "priorities_lines", via |-> via, batch |-> batch,
                result |-> IF via = "priorities"
                           THEN Slice(priorities_lines(batch), 0, Len(batch))
                           ELSE FormattedLines(batch, LISTS["priorities"].format)]
    /\ UNCHANGED <<doc, created, completed, state, inv, runs, edits, tally, days, applescript>>

NextRender ==
    \/ \E text \in Texts, fmt \in Formats, index \in 1..MaxIndex :
            CallFormatEntry(text, fmt, index)
    \/ \E via \in PrioritiesWriters, batch \in PrioBatches : RenderPriorities(via, batch)

\* ------------------------------------------------ the script files alone

\* The scripts the callers of run_applescript build: the fetch of a list
\* (get_reminders) and the acknowledge of ids (mark_reminders_complete)
Scripts ==
    {[kind |-> "get", arg |-> <<"Log">>], [kind |-> "get", arg |-> <<"3Priorities">>],
     [kind |-> "mark", arg |-> <<"r1">>]}

\* run_applescript(script, ...) up to the compilation: the text is written
\* to the fixed path /tmp/reminders_script.applescript
WriteSource(p, script) ==
    /\ applescript.run[p].pc = "idle"
    /\ applescript' = [applescript EXCEPT
                          !.source_path = script,
                          !.run[p] = [pc |-> "compile", script |-> script,
                                      ran |-> NoScript, success |-> FALSE]]
    /\ UNCHANGED <<doc, created, completed, state, inv, runs, edits, tally, call, days>>

\* osacompile compiles whatever the source file holds now into the fixed
\* path /tmp/reminders_script.scpt; a compilation that fails ends the call
\* with (False, stderr)
Compile(p, ok) ==
    /\ applescript.run[p].pc = "compile"
    /\ applescript' =
          IF ok
          THEN [applescript EXCEPT !.compiled_path = applescript.source_path,
                                   !.run[p].pc = "run"]
          ELSE [applescript EXCEPT !.run[p].pc = "done"]
    /\ UNCHANGED <<doc, created, completed, state, inv, runs, edits, tally, call, days>>

\* osascript runs whatever the compiled file holds now and the call returns
\* (True, stdout of that script), or (False, stderr) when it fails
RunCompiled(p, ok) ==
    /\ applescript.run[p].pc = "run"
    /\ applescript' = [applescript EXCEPT !.run[p].pc = "done",
                                          !.run[p].ran = applescript.compiled_path,
                                          !.run[p].success = ok]
    /\ UNCHANGED <<doc, created, completed, state, inv, runs, edits, tally, call, days>>

\* The caller goes on with the result
ReturnToCaller(p) ==
    /\ applescript.run[p].pc = "done"
    /\ applescript' = [applescript EXCEPT !.run[p].pc = "idle"]
    /\ UNCHANGED <<doc, created, completed, state, inv, runs, edits, tally, call, days>>

NextScript ==
    \/ \E p \in AllProcs, script \in Scripts : WriteSource(p, script)
    \/ \E p \in AllProcs, ok \in BOOLEAN : Compile(p, ok)
    \/ \E p \in AllProcs, ok \in BOOLEAN : RunCompiled(p, ok)
    \/ \E p \in AllProcs : ReturnToCaller(p)

\* ------------------------------------------------- the state file alone

\* How many items a recorded sync may have written
MaxCount == 2

\* dispatcher.load_state on an existing file: its records, {} when
\* read_text raises IOError
ReadState(st, readable) == IF readable THEN st ELSE [k \in {} |-> 0]

\* One call mark_list_processed(list_key, count): load_state, set the key,
\* save_state writes the whole dictionary back
MarkListProcessed(list_key, count, readable) ==
    /\ state' = mark_list_processed(ReadState(state, readable), list_key, count)
    /\ call' = [fn |-> "mark_list_processed", list_key |-> list_key,
                count |-> count, readable |-> readable, before |-> state]
    /\ UNCHANGED <<doc, created, completed, inv, runs, edits, tally, days, applescript>>

NextState ==
    \E list_key \in ListKeys, count \in 1..MaxCount, readable \in BOOLEAN :
        MarkListProcessed(list_key, count, readable)

Spec == Init /\ [][Next]_vars

SpecStandalone == Init /\ [][NextStandalone]_vars

SpecAll == Init /\ [][NextAll]_vars

SpecEntry == Init /\ [][NextEntry]_vars

SpecIsolation == Init /\ [][NextIsolation]_vars

SpecBacklog == InitBacklog /\ [][NextBacklog]_vars

SpecHeader == InitHeader /\ [][NextHeader]_vars

SpecDays == Init /\ [][NextDays]_vars
SpecOverlap == InitOverlap /\ [][NextOverlap]_vars
SpecKill == Init /\ [][NextKill]_vars
SpecFaultFree == Init /\ [][NextFaultFree]_vars
SpecField == InitField /\ [][NextField]_vars

SpecConcern == InitConcern /\ [][NextConcern]_vars

SpecPatch == InitPatch /\ [][NextPatch]_vars

SpecRender == InitRender /\ [][NextRender]_vars

SpecState == Init /\ [][NextState]_vars

SpecScript == Init /\ [][NextScript]_vars

\* ------------------------------------------------------------------ claims

\* C1: acknowledge is called only in a section sync whose write was followed
\* by a re-read on which the verification passed, only with reminders that
\* the written text contains, and never in a sync that ended on a failure
\* path (no document, unreadable document, marker not found, write
\* exception on the last attempt, verification failed on every attempt).
C1_AckOnlyAfterVerifiedWrite ==
    \A p \in AllProcs :
        LET r == inv[p]
        IN  /\ r.pc = "ack" => r.verified
            /\ r.ack_called =>
                 /\ r.verified
                 /\ r.writes >= 1
                 /\ r.acked # <<>>
                 /\ \A i \in 1..Len(r.acked) :
                        Contains(r.new_content, ItemText(r.acked[i]))
            /\ r.outcome \in {"fetchfail", "nofile", "unreadable", "nomarker",
                              "writefail", "verifyfail"}
                 => (~r.ack_called /\ r.acked = <<>>)

\* C1, its case: an acknowledge made after a retry.
C1_Witness ==
    inv["A"].ack_called /\ inv["A"].attempt >= 2 /\ inv["A"].prog \in Standalone

\* C2: a section sync makes at most 3 write attempts; once the verification
\* passes no further attempt is made and the write is reported as done (the
\* sync goes on to the acknowledge); when the verification fails on the last
\* attempt the sync returns failure and none of the batch is acknowledged.
C2_AtMostThreeAttempts ==
    \A p \in AllProcs :
        LET r == inv[p]
        IN  /\ r.attempt <= 3
            /\ r.writes <= r.attempt
            /\ r.verified =>
                 /\ r.verified_at = r.attempt
                 /\ r.pc = "ack" \/ r.outcome \in {"ok", "ackfail"}
            /\ r.outcome = "ok" => (r.success /\ r.verified)
            /\ r.outcome = "verifyfail" =>
                 /\ r.attempt = 3
                 /\ ~r.success
                 /\ ~r.ack_called
                 /\ IdSet(r.batch) \cap completed = {}

\* C2, its case: the verification failed on attempt 1 and passed on attempt 2.
C2_Witness ==
    /\ inv["A"].outcome = "ok"
    /\ inv["A"].verified_at = 2
    /\ inv["A"].writes = 2

\* C3 as stated: the text written on an attempt after the first is the patch
\* of the content read after the failed attempt.
C3_RetryWritesRecomputedPatch ==
    \A p \in AllProcs :
        LET r == inv[p]
        IN  (r.pc = "write" /\ r.attempt > 1)
                => r.new_content = PatchOf(r.prog, r.cur, r.content, r.batch)

\* The rendered lines of a batch, as the program at hand writes them
RenderedLines(r) ==
    CASE r.prog = "priorities" ->
            [i \in 1..Len(r.batch) |-> priorities_lines(r.batch)[i]]
      [] r.prog = "concerns" -> <<concerns_text(r.batch)>>
      [] r.prog = "main" -> [i \in 1..Len(r.batch) |-> ItemText(r.batch[i])]
      [] OTHER -> FormattedLines(r.batch, LISTS[r.cur].format)

\* C4 as stated: a write is reported verified only if every rendered line of
\* the batch (for concerns, the joined batch text) is in the re-read content.
C4_VerifiedMeansEveryLinePresent ==
    \A p \in AllProcs :
        LET r == inv[p]
        IN  r.pc = "ack" =>
                \A i \in 1..Len(RenderedLines(r)) : Contains(doc, RenderedLines(r)[i])

C8_RecordOnlyAfterNonEmptySuccess ==
    [][\A k \in DOMAIN state' :
          (k \notin DOMAIN state \/ state'[k] # state[k]) =>
              /\ ScheduleOf(k) # "always"
              /\ \E p \in AllProcs :
                    /\ inv[p].pc = "ack"
                    /\ inv[p].cur = k
                    /\ inv'[p].outcome = "ok"
                    /\ inv'[p].verified
                    /\ inv'[p].writes >= 1
                    /\ Len(inv'[p].batch) > 0
                    /\ state'[k] = Len(inv'[p].batch)]_vars

\* C8, its case: the priorities section was just recorded.
C8_Witness ==
    /\ inv["A"].outcome = "ok"
    /\ inv["A"].cur = "priorities"
    /\ "priorities" \in DOMAIN state

\* The first three of the fetched entries by creation timestamp
FirstThree(entries) ==
    LET srt == SortByTs(entries)
    IN  SubSeq(srt, 1, IF Len(srt) < 3 THEN Len(srt) ELSE 3)

\* C9 as stated: when more than 3 priorities reminders are pending, a sync
\* of the priorities section (priorities.py, or sync_list under run_lists)
\* writes and acknowledges exactly the 3 earliest and leaves the others
\* pending.
C9_OnlyFirstThree ==
    \A p \in AllProcs :
        LET r == inv[p]
        IN  (r.cur = "priorities" /\ r.outcome = "ok" /\ Len(r.entries) > 3) =>
              /\ r.acked = FirstThree(r.entries)
              /\ r.batch = FirstThree(r.entries)
              /\ IdSet(r.entries) \cap completed \subseteq IdSet(FirstThree(r.entries))

\* The lines that follow the line of the priorities marker
LinesAfterPrioMarker(d) ==
    Tail(Split(Slice(d, Find(d, PrioMarker, 0) + Len(PrioMarker), Len(d))))

\* C10: after the priorities patch with a batch of one to three reminders,
\* the marker line is followed by exactly 3 slot lines: the renderings of
\* the batch in order, then empty placeholders; the line after them is no
\* slot line, and no reminder outside the batch is left in the document,
\* whatever earlier patches wrote.
C10_ThreeSlotsReplaced ==
    \A p \in AllProcs :
        LET r == inv[p]
            ls == LinesAfterPrioMarker(doc)
        IN  (r.new_content # <<>> /\ r.new_content # None) =>
              /\ doc = r.new_content
              /\ Len(ls) >= 4
              /\ \A i \in 1..3 : ls[i] = priorities_lines(r.batch)[i]
              /\ \A i \in 1..3 :
                    ls[i] = IF i <= Len(r.batch)
                            THEN Digit(i) \o <<".", " ", "-", " ", "[", " ", "]", " ">>
                                    \o ItemText(r.batch[i])
                            ELSE EmptySlot(i)
              /\ ~(ls[4] # <<>> /\ IsDigit(ls[4][1]))
              /\ \A n \in 1..MaxBatchItem :
                    Item("3Priorities", n) \notin IdSet(r.batch)
                        => ~Contains(doc, ItemText(Item("3Priorities", n)))

\* C10, its case: a document patched with [a, b] is patched with [c] alone.
C10_Witness ==
    /\ Contains(inv["A"].content, <<"[", " ", "]", " ", "a", "\n", "2", ".", " ", "-",
                                    " ", "[", " ", "]", " ", "b", "\n">>)
    /\ inv["A"].batch = <<Item("3Priorities", 3)>>
    /\ doc = inv["A"].new_content

\* The content of the section of the log header: the lines after the header
\* line up to the first divider line or heading, or to the end
RECURSIVE UptoBoundary(_)
UptoBoundary(lines) ==
    IF lines = <<>> \/ StartsWith(lines[1], <<"-", "-", "-">>)
                    \/ StartsWith(lines[1], <<"#", "#", " ">>)
    THEN <<>>
    ELSE <<lines[1]>> \o UptoBoundary(Tail(lines))

SectionLines(d) ==
    LET after == Slice(d, Find(d, LogMarker, 0) + Len(LogMarker), Len(d))
        lines == Tail(Split(after))
    IN  UptoBoundary(IF lines # <<>> /\ lines[Len(lines)] = <<>>
                     THEN SubSeq(lines, 1, Len(lines) - 1) ELSE lines)

\* C11 as stated: when a document with the log header is patched with a
\* batch A and then with a batch B, the section holds what it held before,
\* then the lines of A, then the lines of B.
C11_HeaderPatchesCumulative ==
    [][\A p \in AllProcs :
          (runs = 1 /\ runs' = 2 /\ inv[p].new_content # None
              /\ inv[p].new_content # <<>> /\ inv'[p].new_content # None)
          => SectionLines(doc') =
                SectionLines(inv[p].content)
                    \o [i \in 1..Len(inv[p].batch) |-> ItemText(inv[p].batch[i])]
                    \o [i \in 1..Len(inv'[p].batch) |-> ItemText(inv'[p].batch[i])]]_vars

\* C12: a section sync that finds no marker in the document it read returns
\* failure without a write and without an acknowledge: the step leaves the
\* stored document, the reminders and the state file as they are, the
\* dispatcher counts a failure, and the sync goes on to write only when the
\* document it read contains the marker.
C12_MarkerNotFoundIsFailure ==
    [][\A p \in AllProcs :
          LET r == inv'[p]
          IN  /\ (inv[p].pc = "prepare" /\ r.outcome = "nomarker") =>
                    /\ doc' = doc
                    /\ completed' = completed
                    /\ state' = state
                    /\ ~Contains(doc, LISTS[r.cur].marker)
              /\ r.outcome = "nomarker" =>
                    /\ ~r.success /\ r.count = 0
                    /\ r.writes = 0
                    /\ ~r.ack_called /\ r.acked = <<>>
                    /\ r.new_content = <<>>
                    /\ r.prog = "dispatcher" => r.fail_count >= 1
                    /\ r.pc = "done" => r.status = 1
              /\ (inv[p].pc = "prepare" /\ r.pc = "write") =>
                    Contains(doc, LISTS[r.cur].marker)]_vars

\* C12, its case: the dispatcher's sync of the priorities section found no
\* marker in a document that exists.
C12_Witness ==
    /\ inv["A"].outcome = "nomarker"
    /\ inv["A"].cur = "priorities"
    /\ inv["A"].fail_count >= 1
    /\ doc # NoFile

\* C13 as stated: when a sync of the concerns section fetched the single
\* reminder q, read a document in which the marker line is followed by the
\* bare placeholder line ">", and returned success, then the document holds
\* the marker line immediately followed by "> q", the placeholder line is
\* gone, and the acknowledge was called with exactly [q].
C13_ConcernReplacesPlaceholder ==
    \A p \in AllProcs :
        LET r == inv[p]
            q == Item("Concerns", 1)
            filled == ConcMarker \o NL \o <<">", " ">> \o ItemText(q) \o NL
        IN  (r.cur = "concerns" /\ r.outcome = "ok" /\ r.entries = <<q>>
                /\ Contains(r.content, ConcMarker \o NL \o <<">", "\n">>))
            => /\ Contains(doc, filled)
               /\ ~Contains(doc, filled \o <<">", "\n">>)
               /\ r.ack_called /\ r.acked = <<q>>

\* The two checkbox forms of a line for a text at an index
CheckboxForms(text, index) ==
    { <<"-", " ", "[", " ", "]", " ">> \o text,
      Digit(index) \o <<".", " ", "[", " ", "]", " ">> \o text }

\* What format_entry has to return, per style
RendererGrammar ==
    call.fn = "format_entry" =>
        CASE call.fmt = FORMAT_PLAIN -> call.result = call.text
          [] call.fmt = FORMAT_BLOCKQUOTE -> call.result = <<">", " ">> \o call.text
          [] call.fmt = FORMAT_BULLET -> call.result = <<"-", " ">> \o call.text
          [] call.fmt = FORMAT_NUMBERED ->
                call.result = Digit(call.index) \o <<".", " ">> \o call.text
          [] call.fmt = FORMAT_CHECKBOX ->
                call.result \in CheckboxForms(call.text, call.index)

C15_FetchFailureIsFailure ==
    \A p \in Procs :
        LET r == inv[p]
        IN  /\ r.outcome = "fetchfail" => ~r.success
            /\ (r.pc = "done" /\ \E i \in 1..Len(r.outcomes) : r.outcomes[i] = "fetchfail")
                  => r.status # 0

\* The ways a section of a dispatcher run fails: the fetch failed, the note
\* is missing or unreadable, the marker is absent, the write or its
\* verification failed, the acknowledge failed, sync_list raised, or the key
\* is unknown
FailedOutcomes ==
    {"fetchfail", "nofile", "unreadable", "nomarker", "writefail", "verifyfail",
     "ackfail", "exception", "unknown"}

\* C16 as stated: the status of a dispatcher run is non-zero if and only if
\* at least one requested section failed; a run whose sections all succeeded,
\* were skipped or had nothing pending ends with status zero.  Violated: a
\* section whose fetch failed leaves the status at zero (see C15).
C16_StatusNonZeroIffSectionFailed ==
    \A p \in Procs :
        LET r == inv[p]
        IN  (r.prog = "dispatcher" /\ r.pc = "done") =>
                (r.status # 0 <=>
                    \E i \in 1..Len(r.outcomes) : r.outcomes[i] \in FailedOutcomes)

\* C17: a section that fails (marker not found, write or verification
\* failure, exception raised by sync_list) does not end the run: run_lists
\* goes on with the key that follows it in the requested list, every
\* requested key gets its outcome in the requested order, and the run ends
\* by returning to dispatcher.main, which sets the exit status.
C17_FailureDoesNotAbortRun ==
    \A p \in Procs :
        LET r == inv[p]
            n == Len(r.outcomes)
        IN  r.prog = "dispatcher" =>
              /\ n <= Len(r.requested)
              /\ r.keys = SubSeq(r.requested, n + 1, Len(r.requested))
              /\ r.pc \notin {"loop", "done"} => r.cur = r.requested[n + 1]
              /\ r.pc = "done" => n = Len(r.requested) /\ r.status \in {0, 1}

\* A run of priorities and log ended; sync_list raised for priorities, and
\* the log was synced and acknowledged after it
C17_Witness ==
    \E p \in Procs :
        /\ inv[p].prog = "dispatcher"
        /\ inv[p].pc = "done"
        /\ inv[p].requested = <<"priorities", "log">>
        /\ inv[p].outcomes = <<"exception", "ok">>
        /\ inv[p].status = 1

\* A run of priorities and log ended; the marker of priorities was absent,
\* and the log was synced and acknowledged after it
C17_WitnessMarker ==
    \E p \in Procs :
        /\ inv[p].pc = "done"
        /\ inv[p].requested = <<"priorities", "log">>
        /\ inv[p].outcomes = <<"nomarker", "ok">>

\* C18: a fetch that returns no pending items ends the section sync at once
\* as a success with count 0: the step leaves the document, the completed
\* reminders and the processed records as they were, the document was not
\* read, nothing was written and acknowledge was not called; this also when
\* today's document does not exist.
C18_EmptyFetchIsNoOp ==
    [][\A p \in Procs :
          (inv[p].pc = "fetch" /\ inv'[p].outcome \in {"empty", "fetchfail"}
              /\ inv'[p].pc # "fetch") =>
            /\ doc' = doc
            /\ completed' = completed
            /\ state' = state
            /\ inv'[p].success /\ inv'[p].count = 0
            /\ inv'[p].content = <<>> /\ inv'[p].new_content = <<>>
            /\ inv'[p].writes = 0
            /\ ~inv'[p].ack_called /\ inv'[p].acked = <<>>
            /\ inv'[p].prog = "dispatcher" =>
                  /\ inv'[p].success_count = inv[p].success_count + 1
                  /\ inv'[p].fail_count = inv[p].fail_count]_vars

\* The dispatcher synced a morning list that had nothing pending, on a day
\* whose document does not exist, and no record was written
C18_Witness ==
    \E p \in Procs :
        /\ inv[p].prog = "dispatcher"
        /\ inv[p].cur = "priorities"
        /\ inv[p].outcome = "empty"
        /\ inv[p].success /\ inv[p].count = 0
        /\ doc = NoFile
        /\ "priorities" \notin DOMAIN state

\* C19: no step creates the document, and a section sync that has items to
\* write and finds that today's document does not exist, or cannot read it,
\* returns failure at once: the step leaves the document, the completed
\* reminders and the processed records as they were, nothing was written and
\* acknowledge was not called.
C19_NeverCreatesDocument ==
    [][/\ doc = NoFile => doc' = NoFile
       /\ \A p \in Procs :
            (inv[p].pc = "prepare" /\ inv'[p].pc # "prepare"
                /\ (doc = NoFile \/ inv'[p].outcome = "unreadable")) =>
              /\ inv[p].entries # <<>>
              /\ inv'[p].pc \in {"loop", "done"}
              /\ ~inv'[p].success /\ inv'[p].count = 0
              /\ doc' = doc
              /\ completed' = completed
              /\ state' = state
              /\ inv'[p].writes = 0
              /\ ~inv'[p].ack_called /\ inv'[p].acked = <<>>
              /\ inv'[p].prog = "dispatcher" =>
                    inv'[p].fail_count = inv[p].fail_count + 1
              /\ inv'[p].prog # "dispatcher" => inv'[p].status = 1]_vars

\* A sync with a pending item found no document for today and returned
\* failure; the item is still pending
C19_Witness ==
    \E p \in Procs :
        /\ inv[p].outcome = "nofile"
        /\ doc = NoFile
        /\ inv[p].entries # <<>>
        /\ ~inv[p].success
        /\ \A i \in 1..Len(inv[p].entries) : inv[p].entries[i] \notin completed

\* C20: a section name that is not in the section table is rejected with an
\* explicit failure and nothing is written.  process_entry returns
\* (False, message) for it and leaves the document as it is; run_lists counts
\* the key as failed, syncs nothing for it and goes on with the next key.
C20_UnknownSectionRejected ==
    [][/\ (call'.fn = "process_entry" /\ runs' = runs + 1 /\ inv' = inv
              /\ Lower(call'.entry.section) \notin DOMAIN SECTIONS) =>
            /\ ~call'.success
            /\ call'.message \in {"invalid", "unknown"}
            /\ (call'.texts # <<>> /\ call'.entry.section # "")
                  => call'.message = "unknown"
            /\ doc' = doc
       /\ \A p \in Procs :
            (inv[p].pc = "loop" /\ inv[p].keys # <<>> /\ inv'[p] # inv[p]
                /\ Head(inv[p].keys) \notin DOMAIN LISTS) =>
              /\ inv'[p].pc = "loop"
              /\ inv'[p].outcome = "unknown"
              /\ inv'[p].fail_count = inv[p].fail_count + 1
              /\ inv'[p].success_count = inv[p].success_count
              /\ inv'[p].keys = Tail(inv[p].keys)
              /\ inv'[p].writes = 0
              /\ doc' = doc
              /\ state' = state]_vars

\* The server was sent a text for a section it does not know, on a day whose
\* document exists, and rejected it
C20_Witness ==
    /\ call.fn = "process_entry"
    /\ call.entry.section = "nosuch"
    /\ call.texts = <<<<"a">>>>
    /\ call.message = "unknown"
    /\ ~call.success
    /\ doc = Template

\* The start of the first line at or after position pos that is a divider
\* line or a heading line of the same level; the end of the content when no
\* such line follows
RECURSIVE FirstBoundary(_, _)
FirstBoundary(content, pos) ==
    IF pos >= Len(content) THEN Len(content)
    ELSE LET rest == Slice(content, pos, Len(content))
             nl == Find(content, NL, pos)
         IN  IF StartsWith(rest, <<"-", "-", "-">>) \/ StartsWith(rest, <<"#", "#", " ">>)
             THEN pos
             ELSE IF nl = -1 THEN Len(content)
             ELSE FirstBoundary(content, nl + 1)

\* The insertion point for a header marker: before the first boundary line
\* that follows the marker line
BoundaryInsertPos(content, marker) ==
    LET nl == Find(content, NL, Find(content, marker, 0))
    IN  IF nl = -1 THEN Len(content) ELSE FirstBoundary(content, nl + 1)

\* C21 as stated: for the header marker of the log section, sync_list and
\* main.py put the new lines immediately before the first divider line or
\* same-level heading that follows the marker line, and at the end of the
\* document when there is neither.  Violated: with no boundary the lines go
\* directly after the marker line, before the content the section has.
C21_InsertedBeforeBoundary ==
    \A p \in AllProcs :
        LET r == inv[p]
            pos == BoundaryInsertPos(r.content, LogMarker)
        IN  (r.prog \in {"dispatcher", "main"} /\ r.cur = "log" /\ r.batch # <<>>
                /\ r.new_content # None /\ Contains(r.content, LogMarker)) =>
              r.new_content =
                  Slice(r.content, 0, pos)
                      \o EntriesText(r.batch, LISTS["log"].format)
                      \o Slice(r.content, pos, Len(r.content))

\* The lines of a text; the newline that ends the last line opens no line
LinesOf(text) ==
    LET lines == Split(text)
    IN  IF lines[Len(lines)] = <<>> THEN SubSeq(lines, 1, Len(lines) - 1) ELSE lines

\* The lines a field patch has to leave: the lines up to the marker line,
\* the new lines, and the lines that followed the marker line, without the
\* first of them when it is an empty placeholder
FieldPatched(content, marker, new_lines) ==
    LET nl == Find(content, NL, Find(content, marker, 0))
        line_end == IF nl = -1 THEN Len(content) ELSE nl + 1
        head == LinesOf(Slice(content, 0, line_end))
        rest == LinesOf(Slice(content, line_end, Len(content)))
    IN  head \o new_lines \o
        (IF rest # <<>> /\ Strip(rest[1]) \in Placeholders THEN Tail(rest) ELSE rest)

\* C22 as stated: for the field marker of the concerns section, both
\* sync.insert_at_marker and server.insert_at_marker replace the line after
\* the marker line by the new lines when it is an empty placeholder, and
\* otherwise insert the new lines directly after the marker line and keep
\* every existing line.  Violated: sync.insert_at_marker never replaces.
C22_FieldPlaceholderReplaced ==
    \A p \in AllProcs :
        LET r == inv[p]
        IN  (r.prog \in {"dispatcher", "server"} /\ r.cur = "concerns" /\ r.batch # <<>>
                /\ r.new_content # None /\ Contains(r.content, ConcMarker)) =>
              LinesOf(r.new_content) =
                  FieldPatched(r.content, ConcMarker,
                               FormattedLines(r.batch, LISTS["concerns"].format))

\* C23: the batch of a section sync of the dispatcher holds the fetched
\* items in ascending order of their creation timestamps, whatever the order
\* of the fetch; the text to be written holds one line per item in that
\* order, a checkbox or numbered line carrying the item's 1-based position
\* in the batch; and acknowledge is called with exactly the ids of the batch.
C23_BatchOrderedIndexedAcked ==
    \A p \in Procs :
        LET r == inv[p]
            fmt == LISTS[r.cur].format
            Line(i) ==
                (CASE fmt = FORMAT_CHECKBOX ->
                        Digit(i) \o <<".", " ", "[", " ", "]", " ">>
                   [] fmt = FORMAT_NUMBERED -> Digit(i) \o <<".", " ">>
                   [] fmt = FORMAT_BLOCKQUOTE -> <<">", " ">>
                   [] fmt = FORMAT_BULLET -> <<"-", " ">>
                   [] OTHER -> <<>>) \o ItemText(r.batch[i]) \o NL
            Block[i \in 0..Len(r.batch)] == IF i = 0 THEN <<>> ELSE Block[i - 1] \o Line(i)
        IN  (r.prog = "dispatcher" /\ r.batch # <<>>) =>
              /\ \A i, j \in 1..Len(r.batch) :
                    i < j => ItemTs(r.batch[i]) < ItemTs(r.batch[j])
              /\ Len(r.batch) = Len(r.entries)
              /\ IdSet(r.batch) = IdSet(r.entries)
              /\ r.new_content # <<>> => Contains(r.new_content, Block[Len(r.batch)])
              /\ r.ack_called => r.acked = Ids(r.batch)

\* The fetch listed two priorities reminders newest first; they were written
\* oldest first as lines 1 and 2 and acknowledged
C23_Witness ==
    \E p \in Procs :
        /\ inv[p].prog = "dispatcher"
        /\ inv[p].cur = "priorities"
        /\ inv[p].entries = <<Item("3Priorities", 2), Item("3Priorities", 1)>>
        /\ inv[p].batch = <<Item("3Priorities", 1), Item("3Priorities", 2)>>
        /\ inv[p].outcome = "ok"
        /\ inv[p].acked = <<Item("3Priorities", 1), Item("3Priorities", 2)>>
        /\ Contains(doc, <<"1", ".", " ", "[", " ", "]", " ", "a", "\n",
                           "2", ".", " ", "[", " ", "]", " ", "b", "\n">>)

\* The step of the section pipeline a dispatcher process is in: 0 in
\* run_lists (the record is consulted there, and written there after the
\* return), 1 fetch, 2 patch, write and verify, 3 acknowledge
PipelineRank(pc) ==
    CASE pc = "fetch" -> 1
      [] pc \in {"prepare", "write", "verify", "reread"} -> 2
      [] pc = "ack" -> 3
      [] OTHER -> 0

\* C24 as stated: the pending items are fetched before the processed-today
\* record is consulted, so a section is skipped as processed only after its
\* items were fetched, and no step is re-entered after a later one started.
\* Violated: run_lists consults the record first and a skipped section
\* fetches nothing.
C24_FetchBeforeIdempotencyCheck ==
    [][\A p \in Procs :
          inv'[p].prog = "dispatcher" =>
            /\ (inv'[p].outcome = "skipped"
                    /\ Len(inv'[p].outcomes) > Len(inv[p].outcomes))
                  => inv'[p].entries # <<>>
            /\ PipelineRank(inv'[p].pc) # 0
                  => PipelineRank(inv'[p].pc) >= PipelineRank(inv[p].pc)]_vars

\* C24: within one section run of the dispatcher the steps occur in the
\* order idempotency check, fetch, patch with write and verify, acknowledge,
\* record.  The record is consulted before anything is fetched: the fetch
\* starts only for a section that is forced, scheduled "always" or not
\* recorded, and a skipped section fetches, writes and acknowledges nothing.
\* No step is re-entered after a later one started, and the record is written
\* only by the step that returns from the acknowledge.
C24_PipelineOrder ==
    [][\A p \in Procs :
          inv'[p].prog = "dispatcher" =>
            /\ (inv'[p].pc = "fetch" /\ inv[p].pc # "fetch") =>
                  /\ inv[p].pc = "loop"
                  /\ inv'[p].entries = <<>>
                  /\ \/ inv'[p].force
                     \/ ScheduleOf(inv'[p].cur) = "always"
                     \/ inv'[p].cur \notin DOMAIN state
            /\ (inv'[p].outcome = "skipped"
                    /\ Len(inv'[p].outcomes) > Len(inv[p].outcomes)) =>
                  /\ inv[p].pc = "loop" /\ inv'[p].pc = "loop"
                  /\ inv'[p].cur \in DOMAIN state
                  /\ inv'[p].entries = <<>>
                  /\ inv'[p].writes = 0
                  /\ ~inv'[p].ack_called
                  /\ doc' = doc /\ completed' = completed /\ state' = state
            /\ PipelineRank(inv'[p].pc) # 0
                  => PipelineRank(inv'[p].pc) >= PipelineRank(inv[p].pc)
            /\ state' # state =>
                  /\ inv[p].pc = "ack" /\ inv'[p].pc = "loop"
                  /\ inv'[p].ack_called]_vars

\* A priorities section was skipped as processed while a priorities reminder
\* was pending: nothing was fetched
C24_Witness ==
    \E p \in Procs :
        /\ inv[p].prog = "dispatcher"
        /\ inv[p].outcome = "skipped"
        /\ inv[p].cur = "priorities"
        /\ inv[p].entries = <<>>
        /\ Pending("3Priorities") # <<>>
        /\ "priorities" \in DOMAIN state

\* C25: an acknowledge whose script ran and marked fewer reminders than the
\* ids it was given is a success: the section sync returns success with the
\* count of the whole batch, run_lists counts the section as succeeded, and
\* a section whose schedule is not "always" is recorded as processed with
\* that count.
C25_AckToleratesUnmarkedIds ==
    [][\A p \in Procs :
          (inv[p].pc = "ack" /\ inv'[p].pc # "ack" /\ inv'[p].marked_count >= 0) =>
            /\ Cardinality(completed' \ completed) <= inv'[p].marked_count
            /\ inv'[p].ack_called
            /\ inv'[p].acked = Ids(inv[p].batch)
            /\ (completed' \ completed) \subseteq IdSet(inv[p].batch)
            /\ inv'[p].outcome = "ok"
            /\ inv'[p].success
            /\ inv'[p].count = Len(inv[p].batch)
            /\ inv'[p].prog = "dispatcher" =>
                  /\ inv'[p].success_count = inv[p].success_count + 1
                  /\ inv'[p].fail_count = inv[p].fail_count
                  /\ ScheduleOf(inv'[p].cur) # "always" =>
                        /\ inv'[p].cur \in DOMAIN state'
                        /\ state'[inv'[p].cur] = Len(inv[p].batch)]_vars

\* The dispatcher wrote two priorities reminders, the acknowledge marked
\* only one of them, and the section was recorded with count 2
C25_Witness ==
    \E p \in Procs :
        /\ inv[p].prog = "dispatcher"
        /\ inv[p].cur = "priorities"
        /\ inv[p].outcome = "ok"
        /\ Len(inv[p].acked) = 2
        /\ inv[p].marked_count = 1
        /\ inv[p].acked[1] \in completed
        /\ inv[p].acked[2] \notin completed
        /\ inv[p].success /\ inv[p].count = 2
        /\ "priorities" \in DOMAIN state /\ state["priorities"] = 2

\* The days for which the state directory holds a file
StateFileDays ==
    DOMAIN days.state_files \cup (IF DOMAIN state = {} THEN {} ELSE {days.today})

\* C26: a section is skipped as processed only if its key was recorded on
\* the current date, whatever the files of earlier days hold, and right
\* after the start-up cleanup of the dispatcher the state directory holds
\* no file of a day other than today.
C26_OnlyTodaysRecordsCount ==
    [][\A p \in Procs :
          /\ (/\ Len(inv'[p].outcomes) > Len(inv[p].outcomes)
              /\ inv'[p].outcome = "skipped")
                => <<days.today, inv'[p].cur>> \in days.marked
          /\ (inv[p].pc = "idle" /\ inv'[p].prog = "dispatcher")
                => StateFileDays' \subseteq {days'.today}]_vars

\* On day 2 a run was started while the state file of day 1, with the
\* record of priorities, was still there, and it ran the priorities section
\* instead of skipping it.
C26_Witness ==
    \E p \in Procs :
        /\ days.today = 2
        /\ <<1, "priorities">> \in days.marked
        /\ 1 \in DOMAIN days.notes
        /\ inv[p].prog = "dispatcher" /\ ~inv[p].force
        /\ inv[p].requested = <<"priorities", "log">>
        /\ Len(inv[p].outcomes) >= 1
        /\ inv[p].outcomes[1] = "ok"
        /\ StateFileDays = {2}

\* The string elements of a parsed list that are not blank, stripped
NonBlankStrings(list) ==
    LET strs == SelectSeq(list, LAMBDA e : e.kind = "str" /\ Strip(e.val) # <<>>)
    IN  [i \in 1..Len(strs) |-> Strip(strs[i].val)]

\* C27: when the text of an entry, stripped, starts with "[" and ends with
\* "]": if it parses as a list the texts are its non-blank string elements
\* in list order, otherwise the entry is not rejected as having no text and
\* the only text is the input without its outer brackets; the note a
\* successful call writes holds one rendered line per text, in that order.
C27_BracketTextExpanded ==
    (/\ call.fn = "process_entry"
     /\ call.entry.text.kind = "str"
     /\ LET t == Strip(call.entry.text.val)
        IN  StartsWith(t, <<"[">>) /\ t[Len(t)] = "]")
    => LET t == Strip(call.entry.text.val)
           parsed == JsonLoads(t)
           section == Lower(call.entry.section)
       IN  /\ call.texts = IF parsed.ok THEN NonBlankStrings(parsed.list)
                           ELSE <<Strip(Slice(t, 1, Len(t) - 1))>>
           /\ (~parsed.ok /\ section # "") => call.message # "invalid"
           /\ call.success =>
                 Contains(doc, Join(EntryLines(call.texts, SECTIONS[section].format,
                                               call.entry.timestamp)))

\* A bracketed text that is no list was written as the single text "a,b".
C27_Witness ==
    /\ call.fn = "process_entry"
    /\ call.success
    /\ call.entry.text = Str(<<"[", " ", "a", ",", "b", "]">>)
    /\ call.texts = << <<"a", ",", "b">> >>
    /\ Contains(doc, <<"a", ",", "b">>)

\* C28: nothing guards overlapping invocations. A write stores the text the
\* invocation computed from its own earlier read, so a line another
\* invocation has stored since that read, which is neither in that content
\* nor in the writer's batch, is gone from the note after the write.
C28_WriteStoresOwnPatch ==
    [][\A p \in AllProcs :
          (inv[p].pc = "write" /\ inv'[p].writes = inv[p].writes + 1 /\ doc' # doc)
          => /\ doc' = inv[p].new_content
             /\ \A q \in AllProcs \ {p} : \A i \in 1..Len(inv[q].batch) :
                   (/\ ~Contains(inv[p].content, ItemText(inv[q].batch[i]))
                    /\ inv[q].batch[i] \notin IdSet(inv[p].batch))
                   => ~Contains(doc', ItemText(inv[q].batch[i]))]_vars

\* The lost update: two invocations that overlapped have both verified their
\* write and acknowledged their items and both ended with status 0, and an
\* item one of them acknowledged is not in the note.
C28_Witness ==
    \E p \in AllProcs : \E q \in AllProcs \ {p} :
        /\ inv[p].pc = "done" /\ inv[p].status = 0 /\ inv[p].verified /\ inv[p].ack_called
        /\ inv[q].pc = "done" /\ inv[q].status = 0 /\ inv[q].verified /\ inv[q].ack_called
        /\ \E i \in 1..Len(inv[q].batch) :
              /\ inv[q].batch[i] \in completed
              /\ ~Contains(doc, ItemText(inv[q].batch[i]))

\* How often pat occurs in s from position start on
RECURSIVE Occurrences(_, _, _)
Occurrences(s, pat, start) ==
    LET i == Find(s, pat, start)
    IN  IF i = -1 THEN 0 ELSE 1 + Occurrences(s, pat, i + 1)

\* The invocation of q was killed in a section that is not "always", after
\* a write and before the record
KilledAfterWrite(q) ==
    /\ inv[q].pc = "killed" /\ inv[q].prog = "dispatcher"
    /\ inv[q].writes >= 1
    /\ ScheduleOf(inv[q].cur) # "always"

\* C29: a kill after the write leaves the state file as it was, without the
\* record of the section; an invocation that comes to the section later on
\* the same day and finds no record runs it again; and when its write is
\* stored, every item of the killed batch that is still pending and whose
\* line the killed run left in the note is in its batch and in the note
\* twice.
C29_KillBeforeRecordDuplicates ==
    [][\A q \in AllProcs :
          /\ (inv[q].pc # "killed" /\ inv'[q].pc = "killed") => state' = state
          /\ KilledAfterWrite(q) =>
                \A p \in AllProcs \ {q} :
                   /\ (/\ inv[p].pc = "loop" /\ inv[p].keys # <<>>
                       /\ Head(inv[p].keys) = inv[q].cur
                       /\ inv[q].cur \notin DOMAIN state
                       /\ inv'[p] # inv[p])
                         => inv'[p].pc = "fetch"
                   /\ (/\ inv[p].pc = "write" /\ inv[p].cur = inv[q].cur
                       /\ inv'[p].writes = inv[p].writes + 1 /\ doc' # doc)
                         => \A i \in 1..Len(inv[q].batch) :
                               LET it == inv[q].batch[i]
                               IN  (it \notin completed /\ Contains(inv[p].content, ItemText(it)))
                                   => /\ it \in IdSet(inv[p].batch)
                                      /\ Occurrences(doc', ItemText(it), 0) >= 2]_vars

\* An invocation was killed after it had written the priorities item a and
\* before the record; the next one ran the section again and its write put
\* the line of a, still pending, into the note a second time.
C29_Witness ==
    \E q \in AllProcs : \E p \in AllProcs \ {q} :
        /\ KilledAfterWrite(q)
        /\ inv[q].cur = "priorities" /\ "priorities" \notin DOMAIN state
        /\ inv[p].prog = "dispatcher" /\ inv[p].cur = "priorities" /\ inv[p].pc = "verify"
        /\ \E i \in 1..Len(inv[q].batch) :
              /\ inv[q].batch[i] \notin completed
              /\ inv[q].batch[i] \in IdSet(inv[p].batch)
              /\ Occurrences(doc, ItemText(inv[q].batch[i]), 0) = 2

\* The daily note of day d
NoteOf(d) ==
    IF d = days.today THEN doc
    ELSE IF d \in DOMAIN days.notes THEN days.notes[d] ELSE NoFile

\* How often the text of an item occurs in the notes of all days
TotalOccurrences(it) ==
    LET RECURSIVE Sum(_)
        Sum(d) == IF d = 0 THEN 0
                  ELSE Sum(d - 1) + (IF NoteOf(d) = NoFile THEN 0
                                     ELSE Occurrences(NoteOf(d), ItemText(it), 0))
    IN  Sum(days.today)

\* The reminders created so far
CreatedItems ==
    UNION { {Item(l, n) : n \in 1..created[l]} : l \in ListNames }

\* C30: with serialized invocations, every write verified on some attempt,
\* every acknowledge marking all its ids and no process killed: no item's
\* line is in the notes more than once, an item is in today's note when it
\* is acknowledged, and it stays in the note of that day.
C30_NoDuplicateNoLoss ==
    [][/\ \A it \in CreatedItems' : TotalOccurrences(it)' <= 1
       /\ \A it \in completed' \ completed :
             doc' # NoFile /\ Contains(doc', ItemText(it))
       /\ \A it \in completed : \A d \in 1..days.today :
             (NoteOf(d) # NoFile /\ Contains(NoteOf(d), ItemText(it)))
             => (NoteOf(d)' # NoFile /\ Contains(NoteOf(d)', ItemText(it)))]_vars

\* Item a was synced on day 1 and item b on day 2, b by a write that
\* verified on its second attempt; each is in the note of its day, once.
C30_Witness ==
    /\ days.today = 2
    /\ {Item("3Priorities", 1), Item("3Priorities", 2)} \subseteq completed
    /\ NoteOf(1) # NoFile /\ Contains(NoteOf(1), ItemText(Item("3Priorities", 1)))
    /\ doc # NoFile /\ Contains(doc, ItemText(Item("3Priorities", 2)))
    /\ ~Contains(doc, ItemText(Item("3Priorities", 1)))
    /\ \E p \in Procs : inv[p].verified /\ inv[p].verified_at = 2 /\ inv[p].ack_called

\* C31: run_lists ends the section of each requested key once, in the order
\* of the list: the key whose section ends is the next of the list, the end
\* adds one to exactly one of the two counters (to success_count when the
\* section was skipped as processed), no other step changes the counters,
\* and when run_lists returns the counters add up to the number of keys.
C31_EachKeyCountedOnce ==
    [][\A p \in Procs :
          (inv[p].prog = "dispatcher" /\ inv'[p].prog = "dispatcher") =>
             LET r == inv[p]
                 t == inv'[p]
                 n == Len(r.outcomes)
             IN  /\ Len(t.outcomes) \in {n, n + 1}
                 /\ Len(t.outcomes) = n + 1 =>
                       /\ n < Len(t.requested)
                       /\ t.cur = t.requested[n + 1]
                       /\ \/ t.success_count = r.success_count + 1
                             /\ t.fail_count = r.fail_count
                          \/ t.success_count = r.success_count
                             /\ t.fail_count = r.fail_count + 1
                       /\ t.outcome = "skipped" => t.success_count = r.success_count + 1
                 /\ Len(t.outcomes) = n =>
                       /\ t.success_count = r.success_count
                       /\ t.fail_count = r.fail_count
                 /\ (r.pc = "loop" /\ t.pc = "done") =>
                       /\ n = Len(r.requested)
                       /\ t.success_count + t.fail_count = Len(r.requested)]_vars

\* A run of an unknown key and of priorities returned: the unknown key was
\* counted as failed, and priorities, skipped as processed, as a success.
C31_Witness ==
    \E p \in Procs :
        /\ inv[p].prog = "dispatcher" /\ inv[p].pc = "done"
        /\ inv[p].requested = <<"nosuch", "priorities">>
        /\ inv[p].outcomes = <<"unknown", "skipped">>
        /\ inv[p].success_count = 1 /\ inv[p].fail_count = 1

MarkerLineEnd(content, marker) ==
    LET nl == Find(content, NL, Find(content, marker, 0))
    IN  IF nl = -1 THEN Len(content) ELSE nl + 1

\* C33: for every document that holds the marker, sync.insert_at_marker
\* returns the document with the batch text put in at one position at or
\* after the end of the marker line: what precedes and what follows the
\* inserted text is the original document, character for character.
C33_PureInsertion ==
    \A p \in AllProcs :
        LET r == inv[p]
            text == EntriesText(r.batch, LISTS["log"].format)
        IN  (r.prog = "dispatcher" /\ r.cur = "log" /\ r.batch # <<>>
                /\ Contains(r.content, LogMarker)) =>
              /\ r.new_content # None
              /\ \E pos \in MarkerLineEnd(r.content, LogMarker)..Len(r.content) :
                    /\ Slice(r.new_content, 0, pos) = Slice(r.content, 0, pos)
                    /\ Slice(r.new_content, pos, pos + Len(text)) = text
                    /\ Slice(r.new_content, pos + Len(text), Len(r.new_content))
                          = Slice(r.content, pos, Len(r.content))

\* Two log items were inserted between the text of the section and the
\* divider after it: the insertion point lies inside the document.
C33_Witness ==
    \E p \in AllProcs :
        /\ inv[p].prog = "dispatcher" /\ inv[p].cur = "log"
        /\ Len(inv[p].batch) = 2
        /\ inv[p].content = LogMarker \o NL \o <<"k", "\n", "-", "-", "-", "\n">>
        /\ inv[p].new_content # None
        /\ doc = inv[p].new_content
        /\ Slice(doc, Len(doc) - 4, Len(doc)) = <<"-", "-", "-", "\n">>
        /\ Slice(doc, 0, Len(LogMarker) + 3) = LogMarker \o NL \o <<"k", "\n">>

\* The marker line from the marker on, without the newline that ends it
MarkerLineTail(content, marker) ==
    LET m == Find(content, marker, 0)
        nl == Find(content, NL, m)
    IN  Slice(content, m, IF nl = -1 THEN Len(content) ELSE nl)

\* C34 as stated: for every document that holds the marker, the patch of
\* sync.insert_at_marker and of server.insert_at_marker leaves the marker
\* line as it was and every new line is a line of its own.  Violated: when
\* the marker line is the last line and no newline ends it, the first new
\* line is appended onto the marker line.
C34_NewContentOnOwnLine ==
    \A p \in AllProcs :
        LET r == inv[p]
            lines == FormattedLines(r.batch, LISTS["log"].format)
        IN  (r.prog \in {"dispatcher", "server"} /\ r.cur = "log" /\ r.batch # <<>>
                /\ Contains(r.content, LogMarker)) =>
              /\ r.new_content # None
              /\ MarkerLineTail(r.new_content, LogMarker) = MarkerLineTail(r.content, LogMarker)
              /\ \A i \in 1..Len(lines) :
                    \E j \in 1..Len(LinesOf(r.new_content)) :
                        LinesOf(r.new_content)[j] = lines[i]

\* C35: the priorities patch never changes the text up to the end of the
\* marker, and patching a document that is the result of the patch with the
\* same items again gives the same document.
C35_PrioritiesPatchIdempotent ==
    [][\A p \in AllProcs :
          (/\ runs' = runs + 1
           /\ inv'[p] # inv[p]
           /\ inv'[p].prog = "priorities"
           /\ inv'[p].new_content # None) =>
             LET marker_end == Find(doc, PrioMarker, 0) + Len(PrioMarker)
             IN  /\ Slice(doc', 0, marker_end) = Slice(doc, 0, marker_end)
                 /\ (/\ inv[p].prog = "priorities"
                     /\ inv[p].new_content = doc
                     /\ inv[p].batch = inv'[p].batch)
                       => doc' = doc]_vars

\* The same two items were patched in twice, into a document in which text
\* follows the section; the second patch found the first one's result and
\* returned it unchanged.
C35_Witness ==
    \E p \in AllProcs :
        /\ runs = 2
        /\ inv[p].prog = "priorities"
        /\ Len(inv[p].batch) = 2
        /\ inv[p].content = doc /\ inv[p].new_content = doc
        /\ Contains(doc, ItemText(inv[p].batch[2]))
        /\ Slice(doc, Len(doc) - 2, Len(doc)) = <<"k", "\n">>

\* C36 as stated: the patch of concerns.py keeps every line of the document
\* that is not an empty placeholder, and the text that follows the marker on
\* the marker's own line.  Violated: the rest of the marker line and every
\* blockquote line after it, empty or not, are dropped.
C36_ConcernsPatchKeepsContent ==
    \A p \in AllProcs :
        LET r == inv[p]
            old == LinesOf(r.content)
            new == LinesOf(r.new_content)
        IN  (r.prog = "concerns" /\ r.cur = "concerns" /\ r.batch # <<>>
                /\ Contains(r.content, ConcMarker)) =>
              /\ r.new_content # None
              /\ \A i \in 1..Len(old) :
                    (Strip(old[i]) \notin Placeholders /\ ~Contains(old[i], ConcMarker))
                    => \E j \in 1..Len(new) : new[j] = old[i]
              /\ \A i \in 1..Len(old) :
                    Contains(old[i], ConcMarker) =>
                       LET m == Find(old[i], ConcMarker, 0)
                           after == Strip(Slice(old[i], m + Len(ConcMarker), Len(old[i])))
                       IN  after # <<>> => Contains(r.new_content, after)

\* C37 as stated: mark_list_processed changes only the record of the given
\* section; every other record of today's state file is the same afterwards,
\* also when the file could not be read.  Violated: after a failed read the
\* dictionary that is saved holds the new record alone.
C37_OtherRecordsKept ==
    call.fn = "mark_list_processed" =>
        \A k \in DOMAIN call.before \ {call.list_key} :
            k \in DOMAIN state /\ state[k] = call.before[k]

\* C38 as stated: a call of run_applescript that returns success has run the
\* script it was given, and its output is that script's, also while another
\* process is inside run_applescript.  Violated: both processes use the same
\* two files, so a call runs what the other one wrote or compiled last.
C38_RunsOwnScript ==
    \A p \in AllProcs :
        LET r == applescript.run[p]
        IN  (r.pc = "done" /\ r.success) => r.ran = r.script

====
